---- MODULE Spec2Model ----
(***************************************************************************)
(* Model of the Arbitrum DAO proposal decoder (src/index.ts and its        *)
(* configuration): the nested ABI decoding pipeline                        *)
(*   decode -> decodeL1TimelockSchedule -> handleScheduleCall              *)
(*          -> handleUpradeExecutorCall                                    *)
(* over byte-level calldata.  Byte strings are sequences of 0..255; the    *)
(* hex string "0x.." of the source is the byte string it denotes.          *)
(***************************************************************************)
EXTENDS Integers, Sequences, FiniteSets, TLC

(***************************************************************************)
(* Bounds of the explored input space.                                     *)
(***************************************************************************)
MaxBatch == 3
MaxTrailing == 1

(* Longest array a caller of the codec encodes. *)
MaxArray == 2

(* Most functions handed to the rate limiter in one run. *)
MaxCalls == 3

(* How long a run is followed, in ms. *)
MaxTime == 350

(* Cards on the page. *)
MaxCards == 1

(* How often a card is given an Action in one run. *)
MaxShows == 2

(***************************************************************************)
(* Static configuration (config.ts).  An address is its 20 bytes: the      *)
(* decoder compares the checksummed strings the codec returns with the     *)
(* configured strings, and all configured strings are in checksum form,    *)
(* so the strings are equal exactly when the bytes are.                    *)
(***************************************************************************)
retryableMagic ==
  <<167, 35, 192, 8, 231, 110, 55, 156, 85, 89, 157, 46, 77, 147, 135, 155, 234, 253, 167, 156>>

l1UpgradeExecutor ==
  <<63, 255, 186, 218, 248, 39, 85, 157, 160, 146, 33, 126, 71, 71, 96, 226, 178, 195, 206, 221>>

chains ==
  << [chainID |-> 42162,
      inboxAddress |->
        <<77, 189, 79, 197, 53, 172, 39, 32, 96, 100, 182, 143, 252, 248, 39, 176, 166, 11, 171, 63>>,
      upgradeExecutorAddress |->
        <<207, 87, 87, 34, 97, 199, 194, 188, 242, 31, 253, 34, 14, 167, 209, 162, 125, 64, 168, 39>>],
     [chainID |-> 42170,
      inboxAddress |->
        <<196, 68, 139, 113, 17, 140, 144, 113, 188, 185, 115, 74, 14, 172, 85, 209, 138, 21, 57, 73>>,
      upgradeExecutorAddress |->
        <<134, 160, 45, 215, 19, 99, 196, 64, 178, 31, 76, 14, 91, 42, 208, 31, 254, 26, 116, 130>>] >>

(* The exported config object: module-level state that every routing      *)
(* decision reads.                                                         *)
VARIABLE config

(***************************************************************************)
(* ABI signature sets (abis.ts).  A fragment is the function name, its     *)
(* selector (first four bytes of keccak256 of the canonical signature)     *)
(* and its ordered parameter types.                                        *)
(***************************************************************************)
TimelockFragments ==
  << [name |-> "scheduleBatch", selector |-> <<143, 42, 11, 176>>,
      inputs |-> <<"address[]", "uint256[]", "bytes[]", "bytes32", "bytes32", "uint256">>],
     [name |-> "schedule", selector |-> <<1, 213, 6, 42>>,
      inputs |-> <<"address", "uint256", "bytes", "bytes32", "bytes32", "uint256">>] >>

ExecutorFragments ==
  << [name |-> "execute", selector |-> <<28, 255, 121, 205>>,
      inputs |-> <<"address", "bytes">>],
     [name |-> "executeCall", selector |-> <<188, 168, 199, 181>>,
      inputs |-> <<"address", "bytes">>] >>

ArbSysFragments ==
  << [name |-> "arbBlockNumber", selector |-> <<163, 177, 179, 29>>, inputs |-> <<>>],
     [name |-> "arbBlockHash", selector |-> <<43, 64, 122, 130>>, inputs |-> <<"uint256">>],
     [name |-> "arbChainID", selector |-> <<209, 39, 245, 74>>, inputs |-> <<>>],
     [name |-> "arbOSVersion", selector |-> <<5, 16, 56, 242>>, inputs |-> <<>>],
     [name |-> "getStorageGasAvailable", selector |-> <<169, 69, 151, 255>>, inputs |-> <<>>],
     [name |-> "isTopLevelCall", selector |-> <<8, 189, 98, 76>>, inputs |-> <<>>],
     [name |-> "mapL1SenderContractAddressToL2Alias", selector |-> <<77, 187, 213, 6>>,
      inputs |-> <<"address", "address">>],
     [name |-> "wasMyCallersAddressAliased", selector |-> <<23, 90, 38, 11>>, inputs |-> <<>>],
     [name |-> "myCallersAddressWithoutAliasing", selector |-> <<215, 69, 35, 179>>,
      inputs |-> <<>>],
     [name |-> "withdrawEth", selector |-> <<37, 225, 96, 99>>, inputs |-> <<"address">>],
     [name |-> "sendTxToL1", selector |-> <<146, 140, 22, 154>>,
      inputs |-> <<"address", "bytes">>],
     [name |-> "sendMerkleTreeState", selector |-> <<122, 238, 205, 42>>, inputs |-> <<>>] >>

(* The literal the executor layer compares an action payload with. *)
(* The exported ABI arrays, as the Interface built from them in every call *)
(* parses them.                                                            *)
VARIABLES l1TimelockABI, upgradeExecutorABI, arbSysABI

(* The module-level objects of the decoder. *)
statics == <<config, l1TimelockABI, upgradeExecutorABI, arbSysABI>>

performCallData == <<177, 71, 244, 12>>

ActionType == [CALL |-> "CALL", DELEGATECALL |-> "DELEGATECALL"]

(***************************************************************************)
(* ABI codec as the decoder uses it (ethers AbiCoder / Interface, strict   *)
(* mode): 32-byte words, static values inline, dynamic values behind an    *)
(* offset relative to the start of the enclosing parameter block.          *)
(***************************************************************************)
WordSize == 32

Zeros(n) == [k \in 1..n |-> 0]

(* Indexes at or above 2^24 stand for "beyond any buffer of the model". *)
HugeIndex == 256 * 65536

NumWord(n) == Zeros(29) \o <<n \div 65536, (n \div 256) % 256, n % 256>>

IsDynamic(type) == type \in {"bytes", "address[]", "uint256[]", "bytes[]"}

IsArray(type) == type \in {"address[]", "uint256[]", "bytes[]"}

ElemType(type) ==
  CASE type = "address[]" -> "address"
    [] type = "uint256[]" -> "uint256"
    [] type = "bytes[]" -> "bytes"

(* Variant: byte strings are not padded to a word boundary. *)
Padding_none(len) == <<>>

Padding(len) == Zeros((WordSize - (len % WordSize)) % WordSize)

RECURSIVE EncItem(_, _), EncHeads(_, _, _, _), EncTails(_, _, _)

(* Encoding of one value of the given type (the tail of a dynamic value).  *)
(* A negative uint256 stands for the largest one, 2^256 - 1.               *)
EncItem(type, v) ==
  CASE type = "address" -> Zeros(12) \o v
    [] type = "uint256" -> IF v < 0 THEN [k \in 1..WordSize |-> 255] ELSE NumWord(v)
    [] type = "bytes32" -> v
    [] type = "bytes" -> NumWord(Len(v)) \o v \o Padding(Len(v))
    [] IsArray(type) ->
         LET types == [k \in 1..Len(v) |-> ElemType(type)]
         IN NumWord(Len(v)) \o EncHeads(types, v, 1, WordSize * Len(v))
                            \o EncTails(types, v, 1)

(* Head words of items k.. ; tailOff is the offset of the next free tail. *)
EncHeads(types, vals, k, tailOff) ==
  IF k > Len(types) THEN <<>>
  ELSE IF IsDynamic(types[k])
       THEN NumWord(tailOff)
              \o EncHeads(types, vals, k + 1, tailOff + Len(EncItem(types[k], vals[k])))
       ELSE EncItem(types[k], vals[k]) \o EncHeads(types, vals, k + 1, tailOff)

EncTails(types, vals, k) ==
  IF k > Len(types) THEN <<>>
  ELSE (IF IsDynamic(types[k]) THEN EncItem(types[k], vals[k]) ELSE <<>>)
         \o EncTails(types, vals, k + 1)

encode(types, vals) ==
  EncHeads(types, vals, 1, WordSize * Len(types)) \o EncTails(types, vals, 1)

encodeFunctionData(fragment, vals) == fragment.selector \o encode(fragment.inputs, vals)

(* Reader.readIndex at absolute position pos (0-based) of data. *)
ReadIndex(data, pos) ==
  IF pos + WordSize > Len(data) THEN [st |-> "overrun"]
  ELSE LET w == SubSeq(data, pos + 1, pos + WordSize)
       IN IF \A k \in 1..29 : w[k] = 0
          THEN [st |-> "ok", n |-> w[30] * 65536 + w[31] * 256 + w[32]]
          ELSE IF (\A k \in 1..25 : w[k] = 0) /\ w[26] < 32
               THEN [st |-> "ok", n |-> HugeIndex]
               ELSE [st |-> "error"]

RECURSIVE DecodeItem(_, _, _), Unpack(_, _, _)

(* Coder.decode of one value whose encoding starts at position pos:        *)
(* "overrun" is ethers' BUFFER_OVERRUN, "error" any other coder error.     *)
DecodeItem(type, data, pos) ==
  CASE type = "address" ->
         IF pos + WordSize > Len(data) THEN [st |-> "overrun"]
         ELSE LET w == SubSeq(data, pos + 1, pos + WordSize)
              IN IF \A k \in 1..12 : w[k] = 0
                 THEN [st |-> "ok", v |-> SubSeq(w, 13, 32)]
                 ELSE [st |-> "error"]
    [] type \in {"uint256", "bytes32"} ->
         IF pos + WordSize > Len(data) THEN [st |-> "overrun"]
         ELSE [st |-> "ok", v |-> SubSeq(data, pos + 1, pos + WordSize)]
    [] type = "bytes" ->
         LET len == ReadIndex(data, pos)
         IN IF len.st # "ok" THEN len
            ELSE LET aligned == ((len.n + WordSize - 1) \div WordSize) * WordSize
                 IN IF pos + WordSize + aligned > Len(data) THEN [st |-> "overrun"]
                    ELSE [st |-> "ok",
                          v |-> SubSeq(data, pos + WordSize + 1, pos + WordSize + len.n)]
    [] IsArray(type) ->
         LET count == ReadIndex(data, pos)
         IN IF count.st # "ok" THEN count
            ELSE IF pos > Len(data) \/ count.n * WordSize > Len(data) - pos
                 THEN [st |-> "overrun"]
                 ELSE LET r == Unpack([k \in 1..count.n |-> ElemType(type)], data,
                                      pos + WordSize)
                      IN IF r.st = "ok" THEN [st |-> "ok", v |-> r.items] ELSE r

(* unpack(reader, coders): items are decoded in order; a BUFFER_OVERRUN or *)
(* a bad offset word aborts the whole tuple, any other error of an item is *)
(* kept in the Result and thrown when that item is read.                   *)
Unpack(types, data, base) ==
  LET head(k) == base + WordSize * (k - 1)
      off(k) == ReadIndex(data, head(k))
      item(k) == IF IsDynamic(types[k])
                 THEN (IF off(k).st = "ok"
                       THEN DecodeItem(types[k], data, base + off(k).n)
                       ELSE off(k))
                 ELSE DecodeItem(types[k], data, head(k))
      thrown(k) == IF IsDynamic(types[k]) /\ off(k).st # "ok" THEN off(k).st
                   ELSE IF item(k).st = "overrun" THEN "overrun" ELSE "none"
      bad == {k \in 1..Len(types) : thrown(k) # "none"}
  IN IF bad # {}
     THEN [st |-> thrown(CHOOSE k \in bad : \A j \in bad : k <= j)]
     ELSE [st |-> "ok",
           items |-> [k \in 1..Len(types) |->
                        IF item(k).st = "ok" THEN [ok |-> TRUE, v |-> item(k).v]
                        ELSE [ok |-> FALSE, v |-> <<>>]]]

(* AbiCoder.decode(types, data) *)
abiDecode(types, data) == Unpack(types, data, 0)

(* Variant: a key shorter than a selector matches by prefix. *)
getFunction_prefix(iface, key) ==
  LET hits == {k \in 1..Len(iface) :
                 SubSeq(iface[k].selector, 1, Len(key)) = key}
  IN IF hits = {} THEN [found |-> FALSE]
     ELSE [found |-> TRUE, fragment |-> iface[CHOOSE k \in hits : TRUE]]

(* Interface.getFunction(key) for key = calldata.slice(0, 10) *)
getFunction(iface, key) ==
  LET hits == {k \in 1..Len(iface) : iface[k].selector = key}
  IN IF hits = {} THEN [found |-> FALSE]
     ELSE [found |-> TRUE, fragment |-> iface[CHOOSE k \in hits : TRUE]]

(* calldata.slice(0, 10) *)
Selector(calldata) == SubSeq(calldata, 1, IF Len(calldata) < 4 THEN Len(calldata) ELSE 4)

(* Interface.decodeFunctionData(fragment, data) *)
decodeFunctionData(fragment, data) ==
  IF Len(data) < 4 \/ SubSeq(data, 1, 4) # fragment.selector THEN [st |-> "error"]
  ELSE abiDecode(fragment.inputs, SubSeq(data, 5, Len(data)))

(***************************************************************************)
(* Faults and results.  A fault is the Error the code throws: the literal  *)
(* text of its message and the value interpolated into it (if any).        *)
(***************************************************************************)
Fault(message, value) == [message |-> message, value |-> value]

CodecFault == Fault("could not decode ABI data", <<>>)

Thrown(f) == [ok |-> FALSE, fault |-> f]

(* Reading item k of a decoded Result: a kept coder error is thrown here. *)
Readable(result, ks) == result.st = "ok" /\ \A k \in ks : result.items[k].ok

(***************************************************************************)
(* handleUpradeExecutorCall(_target, payload, chainID)                     *)
(***************************************************************************)
(* Variant: any payload that starts with the selector counts as perform(). *)
DecodedCallData_selectorOnly(actionPayload) ==
  IF Selector(actionPayload) = performCallData THEN "perform()" ELSE ""

(* decodedCallData of the execute case. *)
DecodedCallData(actionPayload) ==
  IF actionPayload = performCallData THEN "perform()" ELSE ""

(* Variant: the Action names the contract the payload was sent to. *)
ExecuteAction_target(target, actionContractAddress, actionPayload, chainID) ==
  [type |-> ActionType.DELEGATECALL,
   address |-> target,
   callData |-> actionPayload,
   chainID |-> chainID,
   decodedCallData |-> DecodedCallData(actionPayload)]

(* The Action of the execute case. *)
ExecuteAction(target, actionContractAddress, actionPayload, chainID) ==
  [type |-> ActionType.DELEGATECALL,
   address |-> actionContractAddress,
   callData |-> actionPayload,
   chainID |-> chainID,
   decodedCallData |-> DecodedCallData(actionPayload)]

(* Variant: executeCall labels its payload the way execute does. *)
ExecuteCallAction_labelled(target, address, callData, chainID) ==
  [type |-> ActionType.CALL,
   address |-> address,
   callData |-> callData,
   chainID |-> chainID,
   decodedCallData |-> DecodedCallData(callData)]

(* The Action of the executeCall case. *)
ExecuteCallAction(target, address, callData, chainID) ==
  [type |-> ActionType.CALL,
   address |-> address,
   callData |-> callData,
   chainID |-> chainID,
   decodedCallData |-> ""]

(* Variant: a payload of unknown selector is read as a plain call. *)
handleUpradeExecutorCall_lenient(target, payload, chainID) ==
  LET found == getFunction(upgradeExecutorABI, Selector(payload))
      fragment == IF found.found THEN found.fragment ELSE upgradeExecutorABI[2]
      decoded == IF Len(payload) < 4 THEN [st |-> "error"]
                 ELSE abiDecode(fragment.inputs, SubSeq(payload, 5, Len(payload)))
  IN IF ~Readable(decoded, {1, 2}) THEN Thrown(CodecFault)
     ELSE [ok |-> TRUE,
           action |-> IF fragment.name = "execute"
                      THEN ExecuteAction(target, decoded.items[1].v,
                                         decoded.items[2].v, chainID)
                      ELSE ExecuteCallAction(target, decoded.items[1].v,
                                             decoded.items[2].v, chainID)]

handleUpradeExecutorCall(target, payload, chainID) ==
  LET found == getFunction(upgradeExecutorABI, Selector(payload))
  IN IF ~found.found THEN Thrown(Fault("Could not get UpgradeExecutor method", <<>>))
     ELSE LET fragment == found.fragment
              decoded == decodeFunctionData(fragment, payload)
          IN CASE fragment.name = "execute" ->
                    IF ~Readable(decoded, {1, 2}) THEN Thrown(CodecFault)
                    ELSE [ok |-> TRUE,
                          action |-> ExecuteAction(target, decoded.items[1].v,
                                                   decoded.items[2].v, chainID)]
               [] fragment.name = "executeCall" ->
                    IF ~Readable(decoded, {1, 2}) THEN Thrown(CodecFault)
                    ELSE [ok |-> TRUE,
                          action |-> ExecuteCallAction(target, decoded.items[1].v,
                                                       decoded.items[2].v, chainID)]
               [] OTHER ->
                    Thrown(Fault("Unrecognized UpgradeExecutor Method ", <<>>))

(* Variant: any known inbox resolves to the first descriptor. *)
FindChain_first(inbox) ==
  IF \E k \in 1..Len(config.chains) : config.chains[k].inboxAddress = inbox THEN 1 ELSE 0

(* config.chains.find(entry => entry.inboxAddress === inbox): the index of *)
(* the first matching descriptor, 0 when there is none.                    *)
FindChain(inbox) ==
  LET hits == {k \in 1..Len(config.chains) : config.chains[k].inboxAddress = inbox}
  IN IF hits = {} THEN 0 ELSE CHOOSE k \in hits : \A j \in hits : k <= j

EnvelopeTypes == <<"address", "address", "uint256", "uint256", "uint256", "bytes">>

(***************************************************************************)
(* handleScheduleCall({target, payload}) and the three arms of its switch. *)
(***************************************************************************)
(* Variant: the chain ID is taken from an envelope-shaped payload. *)
DirectExecutor_payloadChain(target, payload) ==
  LET decoded == abiDecode(EnvelopeTypes, payload)
  IN IF Readable(decoded, 1..6) /\ FindChain(decoded.items[1].v) # 0
     THEN handleUpradeExecutorCall(target, decoded.items[6].v,
                                   config.chains[FindChain(decoded.items[1].v)].chainID)
     ELSE handleUpradeExecutorCall(target, payload, 1)

(* case config.l1UpgradeExecutor *)
DirectExecutor(target, payload) == handleUpradeExecutorCall(target, payload, 1)

(* Variant: an unknown inbox falls back to the home chain. *)
RetryableEnvelope_fallback(target, payload) ==
  LET decoded == abiDecode(EnvelopeTypes, payload)
  IN IF ~Readable(decoded, 1..6) THEN Thrown(CodecFault)
     ELSE LET chain == FindChain(decoded.items[1].v)
          IN handleUpradeExecutorCall(decoded.items[2].v, decoded.items[6].v,
               IF chain = 0 THEN 1 ELSE config.chains[chain].chainID)

(* Variant: an envelope whose fourth field (the gas limit) is zero is      *)
(* rejected.                                                               *)
RetryableEnvelope_gasChecked(target, payload) ==
  LET decoded == abiDecode(EnvelopeTypes, payload)
  IN IF ~Readable(decoded, 1..6) THEN Thrown(CodecFault)
     ELSE LET inbox == decoded.items[1].v
              targetAddr == decoded.items[2].v
              chain == FindChain(inbox)
          IN IF chain = 0 \/ decoded.items[4].v = Zeros(WordSize)
             THEN Thrown(Fault("Unrecognized inbox ", inbox))
             ELSE handleUpradeExecutorCall(targetAddr, decoded.items[6].v,
                                           config.chains[chain].chainID)

(* Variant: the envelope's target must be the upgrade executor of the      *)
(* chain the inbox belongs to.                                             *)
RetryableEnvelope_targetChecked(target, payload) ==
  LET decoded == abiDecode(EnvelopeTypes, payload)
  IN IF ~Readable(decoded, 1..6) THEN Thrown(CodecFault)
     ELSE LET inbox == decoded.items[1].v
              targetAddr == decoded.items[2].v
              chain == FindChain(inbox)
          IN IF chain = 0 THEN Thrown(Fault("Unrecognized inbox ", inbox))
             ELSE IF targetAddr # config.chains[chain].upgradeExecutorAddress
                  THEN Thrown(Fault("Unrecognized L1timelock target ", targetAddr))
                  ELSE handleUpradeExecutorCall(targetAddr, decoded.items[6].v,
                                                config.chains[chain].chainID)

(* case config.retryableMagic *)
RetryableEnvelope(target, payload) ==
  LET decoded == abiDecode(EnvelopeTypes, payload)
  IN IF ~Readable(decoded, 1..6) THEN Thrown(CodecFault)
     ELSE LET inbox == decoded.items[1].v
              targetAddr == decoded.items[2].v
              chain == FindChain(inbox)
          IN IF chain = 0 THEN Thrown(Fault("Unrecognized inbox ", inbox))
             ELSE handleUpradeExecutorCall(targetAddr, decoded.items[6].v,
                                           config.chains[chain].chainID)

(* Variant: a satellite chain's own upgrade executor is accepted as target. *)
DefaultTarget_chainExecutor(target, payload) ==
  LET isInboxAddress ==
        \E k \in 1..Len(config.chains) : config.chains[k].inboxAddress = target
      hits == {k \in 1..Len(config.chains) :
                 config.chains[k].upgradeExecutorAddress = target}
  IN IF isInboxAddress
     THEN Thrown(Fault("L1Timelock calls directly to inbox not currently supported", <<>>))
     ELSE IF hits # {}
          THEN handleUpradeExecutorCall(target, payload,
                                        config.chains[CHOOSE k \in hits : TRUE].chainID)
          ELSE Thrown(Fault("Unrecognized L1timelock target ", target))

(* Variant: no check for a direct inbox call. *)
DefaultTarget_noInboxCheck(target, payload) ==
  Thrown(Fault("Unrecognized L1timelock target ", target))

(* default *)
DefaultTarget(target, payload) ==
  LET isInboxAddress ==
        \E k \in 1..Len(config.chains) : config.chains[k].inboxAddress = target
  IN IF isInboxAddress
     THEN Thrown(Fault("L1Timelock calls directly to inbox not currently supported", <<>>))
     ELSE Thrown(Fault("Unrecognized L1timelock target ", target))

handleScheduleCall(target, payload) ==
  CASE target = config.l1UpgradeExecutor -> DirectExecutor(target, payload)
    [] target # config.l1UpgradeExecutor /\ target = config.retryableMagic ->
         RetryableEnvelope(target, payload)
    [] OTHER -> DefaultTarget(target, payload)

(***************************************************************************)
(* Inputs.  A call is described by what its calldata encodes (src) and the *)
(* calldata is the encoding of that description, possibly cut short.       *)
(***************************************************************************)
addrA == <<171, 205, 171, 205, 171, 205, 171, 205, 171, 205,
           171, 205, 171, 205, 171, 205, 171, 205, 171, 205>>

Inbox(k) == chains[k].inboxAddress

ChainExecutor(k) == chains[k].upgradeExecutorAddress

otherCallData == <<18, 52, 86, 120>>

PerformWith(t) == performCallData \o Zeros(t)

ActionDatas == {PerformWith(t) : t \in 0..MaxTrailing} \cup {otherCallData, <<>>}

ExecCall(fn, addr, data) == [fn |-> fn, addr |-> addr, data |-> data]

(* Payload bytes of an executor-layer call description. *)
ExecPayload(call) ==
  CASE call.fn = "execute" ->
         encodeFunctionData(ExecutorFragments[1], <<call.addr, call.data>>)
    [] call.fn = "executeCall" ->
         encodeFunctionData(ExecutorFragments[2], <<call.addr, call.data>>)
    [] call.fn = "other" ->
         <<37, 225, 96, 99>> \o encode(<<"address", "bytes">>, <<call.addr, call.data>>)
    [] call.fn = "raw" -> call.data

Cut(b, n) == SubSeq(b, 1, IF Len(b) < n THEN 0 ELSE Len(b) - n)

DirectPair(target, call, cut) ==
  [target |-> target, env |-> FALSE, inbox |-> <<>>, envTarget |-> <<>>,
   gas |-> <<0, 0, 0>>, call |-> call, cut |-> cut]

EnvelopePair(target, inbox, envTarget, gas, call, cut) ==
  [target |-> target, env |-> TRUE, inbox |-> inbox, envTarget |-> envTarget,
   gas |-> gas, call |-> call, cut |-> cut]

PairPayload(p) ==
  Cut(IF p.env
      THEN encode(EnvelopeTypes,
                  <<p.inbox, p.envTarget, p.gas[1], p.gas[2], p.gas[3], ExecPayload(p.call)>>)
      ELSE ExecPayload(p.call),
      p.cut)

ExecCalls ==
  {ExecCall(fn, addr, data) :
     fn \in {"execute", "executeCall"}, addr \in {addrA, ChainExecutor(1)},
     data \in ActionDatas}
  \cup {ExecCall("other", addrA, performCallData), ExecCall("raw", addrA, <<28, 255>>)}

EnvCalls ==
  {ExecCall(fn, addrA, data) :
     fn \in {"execute", "executeCall"}, data \in {performCallData, otherCallData}}
  \cup {ExecCall("other", addrA, performCallData), ExecCall("raw", addrA, <<>>)}

SinglePool ==
  {DirectPair(l1UpgradeExecutor, c, cut) : c \in ExecCalls, cut \in {0, 1}}
  \cup {EnvelopePair(retryableMagic, inbox, envTarget, <<0, 0, 0>>, c, 0) :
          inbox \in {Inbox(1), Inbox(2), ChainExecutor(1), l1UpgradeExecutor},
          envTarget \in {ChainExecutor(1), addrA}, c \in EnvCalls}
  \cup {EnvelopePair(retryableMagic, Inbox(1), ChainExecutor(1), <<0, 0, 0>>,
                     ExecCall("execute", addrA, performCallData), 1)}
  \cup {DirectPair(t, c, 0) :
          t \in {Inbox(1), Inbox(2), addrA, ChainExecutor(2)},
          c \in {ExecCall("execute", addrA, performCallData),
                 ExecCall("raw", addrA, <<>>)}}
  \cup {EnvelopePair(t, Inbox(2), ChainExecutor(2), <<0, 0, 0>>,
                       ExecCall("execute", addrA, performCallData), 0) :
          t \in {Inbox(2), l1UpgradeExecutor}}

BatchPool ==
  {DirectPair(l1UpgradeExecutor, ExecCall("execute", addrA, performCallData), 0),
   DirectPair(l1UpgradeExecutor, ExecCall("executeCall", ChainExecutor(1),
                                                 otherCallData), 0),
   EnvelopePair(retryableMagic, Inbox(2), ChainExecutor(2), <<0, 0, 0>>,
                ExecCall("execute", addrA, otherCallData), 0),
   DirectPair(addrA, ExecCall("execute", addrA, performCallData), 0),
   EnvelopePair(retryableMagic, ChainExecutor(1), ChainExecutor(1), <<0, 0, 0>>,
                ExecCall("execute", addrA, performCallData), 0),
   DirectPair(l1UpgradeExecutor, ExecCall("other", addrA, performCallData), 0)}

Batches == UNION {[1..n -> BatchPool] : n \in 0..MaxBatch}

Poke(b, k, v) == [b EXCEPT ![k] = v]

ScheduleOf(p) ==
  encodeFunctionData(TimelockFragments[2],
    <<p.target, 0, PairPayload(p), Zeros(32), Zeros(32), 86400>>)

GoodPair ==
  DirectPair(l1UpgradeExecutor, ExecCall("execute", addrA, performCallData), 0)

(* A complete schedule call wrapped for a destination other than the       *)
(* timelock.                                                               *)
WrapperRaw == encodeFunctionData(ArbSysFragments[11], <<addrA, ScheduleOf(GoodPair)>>)

(* Calldata that is no well-formed timelock call: too short, a foreign     *)
(* selector, a target word with dirty high bytes, an offset word that      *)
(* overflows, an offset that points behind the buffer; and a timelock call *)
(* wrapped for a destination that is not the timelock.                     *)
RawCalldatas ==
  {<<>>, <<1, 213>>, <<1, 213, 6, 42>>, <<143, 42, 11, 176>> \o Zeros(31),
   ExecPayload(ExecCall("execute", addrA, performCallData)),
   <<37, 225, 96, 99>> \o Zeros(12) \o addrA,
   WrapperRaw,
   Poke(ScheduleOf(DirectPair(l1UpgradeExecutor,
                              ExecCall("execute", addrA, performCallData), 0)), 5, 1),
   Poke(ScheduleOf(DirectPair(l1UpgradeExecutor,
                              ExecCall("execute", addrA, performCallData), 0)), 69, 255),
   Poke(ScheduleOf(DirectPair(l1UpgradeExecutor,
                              ExecCall("execute", addrA, performCallData), 0)), 99, 1)}

(* The 32-byte destination word of a sendTxToL1 wrapper. *)
AddrWord(a) == Zeros(12) \o a

DirtyWord == <<255>> \o Zeros(11) \o addrA

Src(fn, pairs, extra, raw, wrapped) ==
  [fn |-> fn, pairs |-> pairs, extra |-> extra, raw |-> raw, wrapped |-> wrapped,
   dest |-> AddrWord(l1UpgradeExecutor)]

SentTo(s, dest) == [s EXCEPT !.wrapped = TRUE, !.dest = dest]

Sources ==
  {Src("schedule", <<p>>, 0, <<>>, w) : p \in SinglePool, w \in BOOLEAN}
  \cup {Src("scheduleBatch", ps, x, <<>>, FALSE) : ps \in Batches, x \in {-1, 0, 1}}
  \cup {Src("scheduleBatch", ps, 0, <<>>, TRUE) : ps \in {b \in Batches : Len(b) <= 1}}
  \cup {Src("raw", <<>>, 0, r, w) : r \in RawCalldatas, w \in BOOLEAN}

(* Families of related inputs for calls that are compared with each other. *)
ProbeBases ==
  {Src("schedule", <<GoodPair>>, 0, <<>>, FALSE),
   Src("schedule", <<EnvelopePair(retryableMagic, Inbox(2), ChainExecutor(2),
                                  <<0, 0, 0>>,
                                  ExecCall("execute", addrA, otherCallData), 0)>>,
       0, <<>>, FALSE),
   Src("schedule", <<DirectPair(addrA, ExecCall("execute", addrA, performCallData), 0)>>,
       0, <<>>, FALSE),
   Src("scheduleBatch",
       <<GoodPair,
         EnvelopePair(retryableMagic, Inbox(1), ChainExecutor(1), <<0, 0, 0>>,
                      ExecCall("executeCall", addrA, performCallData), 0)>>,
       0, <<>>, FALSE),
   Src("raw", <<>>, 0, <<1, 213>>, FALSE),
   Src("raw", <<>>, 0, <<37, 225, 96, 99>> \o Zeros(12) \o addrA, FALSE),
   Src("raw", <<>>, 0, WrapperRaw, FALSE)}

(* Envelopes that differ in their numeric fields only. *)
GasProbes ==
  {Src("schedule", <<EnvelopePair(retryableMagic, inbox, ChainExecutor(2), gas,
                                  ExecCall(fn, addrA, otherCallData), 0)>>,
       0, <<>>, FALSE) :
     inbox \in {Inbox(2), addrA}, fn \in {"execute", "other"},
     gas \in {<<0, 0, 0>>, <<1, 70000, 3>>, <<-1, 0, -1>>}}

(* Envelopes that differ in their target address only. *)
TargetProbes ==
  {Src("schedule", <<EnvelopePair(retryableMagic, inbox, envTarget, <<0, 0, 0>>,
                                  ExecCall(fn, addrA, performCallData), 0)>>,
       0, <<>>, FALSE) :
     inbox \in {Inbox(1), addrA}, fn \in {"execute", "executeCall", "other"},
     envTarget \in {ChainExecutor(1), ChainExecutor(2), addrA}}

Destinations == {AddrWord(l1UpgradeExecutor), AddrWord(addrA), DirtyWord}

Probes ==
  {[entry |-> e, src |-> s] :
     e \in {"decode", "decodeL1TimelockSchedule"}, s \in ProbeBases}
  \cup {[entry |-> "decode", src |-> SentTo(s, d)] : s \in ProbeBases, d \in Destinations}
  \cup {[entry |-> "decode", src |-> s] : s \in GasProbes \cup TargetProbes}

BatchPayloads(s) ==
  LET all == [k \in 1..Len(s.pairs) |-> PairPayload(s.pairs[k])]
  IN CASE s.extra = 0 -> all
       [] s.extra = 1 -> Append(all, otherCallData)
       [] s.extra = -1 -> SubSeq(all, 1, Len(all) - 1)

TimelockCalldata(s) ==
  CASE s.fn = "schedule" ->
         encodeFunctionData(TimelockFragments[2],
           <<s.pairs[1].target, 0, PairPayload(s.pairs[1]), Zeros(32), Zeros(32), 86400>>)
    [] s.fn = "scheduleBatch" ->
         encodeFunctionData(TimelockFragments[1],
           <<[k \in 1..Len(s.pairs) |-> s.pairs[k].target],
             [k \in 1..Len(s.pairs) |-> 0],
             BatchPayloads(s), Zeros(32), Zeros(32), 86400>>)
    [] s.fn = "raw" -> s.raw

InputCalldata(s) ==
  IF s.wrapped
  THEN LET enc == encodeFunctionData(ArbSysFragments[11],
                                     <<SubSeq(s.dest, 13, 32), TimelockCalldata(s)>>)
       IN SubSeq(enc, 1, 4) \o s.dest \o SubSeq(enc, 37, Len(enc))
  ELSE TimelockCalldata(s)

(***************************************************************************)
(* State: one caller stepping through a call of decode or of               *)
(* decodeL1TimelockSchedule.                                               *)
(***************************************************************************)
VARIABLES pc, entry, src, input, calldata, decoded, i, mapped, outcome, seen

decoderVars ==
  <<pc, entry, src, input, calldata, decoded, i, mapped, outcome, seen, statics>>

(* A caller of the codec alone: the types and values it encodes, the bytes *)
(* it gets, and what decoding them gives back.                             *)
VARIABLES layout, value, encoded, result

codecVars == <<layout, value, encoded, result>>

(* The fourByteRateLimiter object and the clock it reads.  The record      *)
(* holds the fields of the object (queue, processing, lastCallTime), where *)
(* its processQueue loop stands (loop, timer, current), the functions      *)
(* handed to execute so far (fns[n] is the n-th, with the state of its own *)
(* promise and of the promise execute returned for it) and a record of    *)
(* the starts: the functions in the order they were started, the clock     *)
(* reading at the latest start, its distance to the start before, and      *)
(* whether the queue had drained in between.                               *)
VARIABLES fourByteRateLimiter, now

limiterVars == <<fourByteRateLimiter, now>>

(* Date.now() when the page is loaded: any reading above minInterval. *)
PageLoad == 1000

LimiterIdle ==
  /\ fourByteRateLimiter =
       [queue |-> <<>>, processing |-> FALSE, lastCallTime |-> 0,
        loop |-> "idle", timer |-> 0, current |-> 0,
        fns |-> <<>>, starts |-> <<>>, startedAt |-> 0, gap |-> 0,
        drained |-> FALSE, afterDrain |-> FALSE]
  /\ now = PageLoad

(* The page: the ActionCards on it, the decodeCallDataUncached and         *)
(* fetchContractSourceUncached calls made so far (the two promise caches   *)
(* keep every one of them), the `then` callbacks not yet run, and how      *)
(* often a card was given an Action.                                       *)
VARIABLES cards, lookups, sources, thens, shows

uiVars == <<cards, lookups, sources, thens, shows>>

Cards == 1..MaxCards

NoAction ==
  [type |-> "none", address |-> <<>>, callData |-> <<>>, chainID |-> 0,
   decodedCallData |-> ""]

(* An ActionCard before it is given an Action: the useState defaults, in   *)
(* autoFrom the decodeCallData call whose result autoDecoded holds, and in *)
(* decodeOf and sourceOf the calls whose promises decodeCallData and       *)
(* fetchContractSource returned to the effect for the Action shown.        *)
FreshCard ==
  [action |-> NoAction, isDecoding |-> FALSE, autoDecoded |-> "", autoFrom |-> 0,
   contractSource |-> "null", decodeOf |-> 0, sourceOf |-> 0]

UiIdle ==
  /\ cards = [c \in Cards |-> FreshCard]
  /\ lookups = <<>>
  /\ sources = <<>>
  /\ thens = {}
  /\ shows = 0

(* The App component: its state (inputData, actions, error,                *)
(* proposalOptions), the debounce timer of its decode effect with the      *)
(* inputData and proposalOptions its callback closed over, where the       *)
(* callback stands, and a record of the latest decode attempt: the input   *)
(* it was made for, the proposalOptions of the component at that moment,   *)
(* what was handed to decode and what it set.                              *)
VARIABLE app

appVars == <<app>>

(* A string of n characters c. *)
Rep(c, n) == [k \in 1..n |-> c]

(* data/proposals.json as imported: proposal records with their calldatas. *)
proposalsData ==
  <<[proposalId |-> Rep("1", 77),
     calldatas |-> <<<<"0", "x", "5">>, <<"0", "x", "7">>>>]>>

(* proposalsData.map(p => ({id, label, calldata: p.calldatas[0]})).reverse() *)
STATIC_PROPOSALS ==
  [k \in 1..Len(proposalsData) |->
     [id |-> proposalsData[Len(proposalsData) + 1 - k].proposalId,
      calldata |-> proposalsData[Len(proposalsData) + 1 - k].calldatas[1]]]

(* The options fetchNewProposals builds from the ProposalCreated events. *)
newOptions == <<[id |-> Rep("2", 77), calldata |-> <<"0", "x", "6">>]>>

NoError == [set |-> FALSE, kind |-> "", of |-> <<>>]

NoActions == [set |-> FALSE, list |-> <<>>]

NotHanded == [set |-> FALSE, data |-> <<>>]

NoAttempt ==
  [made |-> FALSE, inputData |-> <<>>, options |-> <<>>, handed |-> NotHanded,
   actions |-> NoActions, error |-> NoError]

(* The effect's timer as set for the given inputData and proposalOptions. *)
Armed(text, options) == [armed |-> TRUE, inputData |-> text, proposalOptions |-> options]

(* The component as mounted: the useState defaults, and the decode effect  *)
(* has run once for the empty input.                                       *)
AppIdle ==
  app = [inputData |-> <<>>, actions |-> NoActions, error |-> NoError,
         proposalOptions |-> STATIC_PROPOSALS, fetched |-> FALSE,
         timer |-> Armed(<<>>, STATIC_PROPOSALS), pc |-> "idle",
         attempt |-> NoAttempt]

(* What no step of the decoder touches. *)
elsewhere == <<codecVars, limiterVars, uiVars, appVars>>

vars == <<decoderVars, elsewhere>>

NoResult == [st |-> "none", vals |-> <<>>]

CodecIdle ==
  /\ layout = <<>>
  /\ value = <<>>
  /\ encoded = <<>>
  /\ result = NoResult

NoFault == Fault("", <<>>)

NoOutcome == [st |-> "none", actions |-> <<>>, fault |-> NoFault]

Returned(actions) == [st |-> "returned", actions |-> actions, fault |-> NoFault]

(* What the caller of a throwing call receives: the Error, no Actions. *)
Raised(f) == [st |-> "thrown", actions |-> <<>>, fault |-> f]

NoSrc == Src("raw", <<>>, 0, <<>>, FALSE)

(* An earlier call as its caller saw it: what was called with what, and    *)
(* what came back.                                                         *)
NoCall == [entry |-> "none", src |-> NoSrc, input |-> <<>>, outcome |-> NoOutcome]

Init ==
  /\ config = [retryableMagic |-> retryableMagic,
               l1UpgradeExecutor |-> l1UpgradeExecutor,
               chains |-> chains]
  /\ l1TimelockABI = TimelockFragments
  /\ upgradeExecutorABI = ExecutorFragments
  /\ arbSysABI = ArbSysFragments
  /\ pc = "idle"
  /\ entry = "none"
  /\ src = NoSrc
  /\ input = <<>>
  /\ calldata = <<>>
  /\ decoded = <<>>
  /\ i = 0
  /\ mapped = <<>>
  /\ outcome = NoOutcome
  /\ seen = NoCall
  /\ CodecIdle
  /\ LimiterIdle
  /\ UiIdle
  /\ AppIdle

(* Entry e is invoked with the calldata that s describes. *)
Begin(e, s) ==
  /\ entry' = e
  /\ src' = s
  /\ input' = InputCalldata(s)
  /\ calldata' = InputCalldata(s)
  /\ pc' = IF e = "decode" THEN "dispatch" ELSE "timelock"
  /\ decoded' = <<>>
  /\ i' = 0
  /\ mapped' = <<>>
  /\ outcome' = NoOutcome

(* A caller invokes decode(calldata) or decodeL1TimelockSchedule(calldata). *)
Call ==
  /\ pc = "idle"
  /\ UNCHANGED elsewhere
  /\ \E e \in {"decode", "decodeL1TimelockSchedule"}, s \in Sources :
       /\ (s.wrapped => e = "decode")
       /\ Begin(e, s)
  /\ UNCHANGED <<seen, statics>>

(* The same, with inputs that come in families: one timelock call bare,    *)
(* wrapped for several destinations, and wrapped twice.                    *)
CallProbe ==
  /\ pc = "idle"
  /\ UNCHANGED elsewhere
  /\ \E c \in Probes : Begin(c.entry, c.src)
  /\ UNCHANGED <<seen, statics>>

(* Variant: decode() calls itself on the unwrapped data, so it peels every *)
(* sendTxToL1 layer.                                                       *)
OuterDispatch_unwrapAll ==
  /\ pc = "dispatch"
  /\ UNCHANGED elsewhere
  /\ LET found == getFunction(arbSysABI, Selector(calldata))
     IN IF found.found /\ found.fragment.name = "sendTxToL1"
        THEN LET d == decodeFunctionData(found.fragment, calldata)
             IN IF Readable(d, {2})
                THEN /\ calldata' = d.items[2].v
                     /\ pc' = "dispatch"
                     /\ outcome' = outcome
                ELSE /\ calldata' = calldata
                     /\ pc' = "done"
                     /\ outcome' = Raised(CodecFault)
        ELSE /\ calldata' = calldata
             /\ pc' = "timelock"
             /\ outcome' = outcome
  /\ UNCHANGED <<entry, src, input, decoded, i, mapped, seen, statics>>

(* decode(): unwrap one sendTxToL1 layer, else pass the calldata on. *)
OuterDispatch ==
  /\ pc = "dispatch"
  /\ UNCHANGED elsewhere
  /\ LET found == getFunction(arbSysABI, Selector(calldata))
     IN IF found.found /\ found.fragment.name = "sendTxToL1"
        THEN LET d == decodeFunctionData(found.fragment, calldata)
             IN IF Readable(d, {2})
                THEN /\ calldata' = d.items[2].v
                     /\ pc' = "timelock"
                     /\ outcome' = outcome
                ELSE /\ calldata' = calldata
                     /\ pc' = "done"
                     /\ outcome' = Raised(CodecFault)
        ELSE /\ calldata' = calldata
             /\ pc' = "timelock"
             /\ outcome' = outcome
  /\ UNCHANGED <<entry, src, input, decoded, i, mapped, seen, statics>>

(* Variant: every target is paired with the first payload of the batch. *)
SchedulePairs_firstPayload(fragment, d) ==
  IF fragment.name = "schedule"
  THEN << [target |-> d.items[1], payload |-> d.items[3]] >>
  ELSE [k \in 1..Len(d.items[1].v) |->
          [target |-> d.items[1].v[k],
           payload |-> IF d.items[3].ok /\ 1 <= Len(d.items[3].v)
                       THEN d.items[3].v[1]
                       ELSE [ok |-> FALSE, v |-> <<>>]]]

(* The (target, payload) reads the map callback makes on the decoded call. *)
SchedulePairs(fragment, d) ==
  IF fragment.name = "schedule"
  THEN << [target |-> d.items[1], payload |-> d.items[3]] >>
  ELSE [k \in 1..Len(d.items[1].v) |->
          [target |-> d.items[1].v[k],
           payload |-> IF d.items[3].ok /\ k <= Len(d.items[3].v)
                       THEN d.items[3].v[k]
                       ELSE [ok |-> FALSE, v |-> <<>>]]]

(* decodeL1TimelockSchedule() up to the switch on fragment.name. *)
TimelockLayer ==
  /\ pc = "timelock"
  /\ UNCHANGED elsewhere
  /\ LET found == getFunction(l1TimelockABI, Selector(calldata))
     IN IF ~found.found
        THEN /\ outcome' = Raised(Fault("Could not find L1Timelock method", <<>>))
             /\ pc' = "done"
             /\ UNCHANGED <<decoded, i>>
        ELSE LET d == decodeFunctionData(found.fragment, calldata)
             IN IF d.st # "ok"
                   \/ (found.fragment.name = "scheduleBatch" /\ ~d.items[1].ok)
                THEN /\ outcome' = Raised(CodecFault)
                     /\ pc' = "done"
                     /\ UNCHANGED <<decoded, i>>
                ELSE /\ decoded' = SchedulePairs(found.fragment, d)
                     /\ i' = 1
                     /\ pc' = "map"
                     /\ outcome' = outcome
  /\ UNCHANGED <<entry, src, input, calldata, mapped, seen, statics>>

(* Variant: a faulting pair is skipped and decoding goes on (best effort). *)
MapStep_bestEffort ==
  /\ pc = "map"
  /\ UNCHANGED elsewhere
  /\ i <= Len(decoded)
  /\ LET pair == decoded[i]
         r == IF pair.target.ok /\ pair.payload.ok
              THEN handleScheduleCall(pair.target.v, pair.payload.v)
              ELSE Thrown(CodecFault)
     IN /\ mapped' = IF r.ok THEN Append(mapped, r.action) ELSE mapped
        /\ i' = i + 1
        /\ UNCHANGED <<pc, outcome>>
  /\ UNCHANGED <<entry, src, input, calldata, decoded, seen, statics>>

(* Variant: the chain list is put in the reverse order, in place, before   *)
(* the pair is handled.                                                    *)
MapStep_reversing ==
  /\ pc = "map"
  /\ UNCHANGED elsewhere
  /\ i <= Len(decoded)
  /\ LET pair == decoded[i]
         r == IF pair.target.ok /\ pair.payload.ok
              THEN handleScheduleCall(pair.target.v, pair.payload.v)
              ELSE Thrown(CodecFault)
     IN IF r.ok
        THEN /\ mapped' = Append(mapped, r.action)
             /\ i' = i + 1
             /\ UNCHANGED <<pc, outcome>>
        ELSE /\ outcome' = Raised(r.fault)
             /\ pc' = "done"
             /\ UNCHANGED <<mapped, i>>
  /\ config' = [config EXCEPT
                  !.chains = [k \in 1..Len(@) |-> @[Len(@) + 1 - k]]]
  /\ UNCHANGED <<entry, src, input, calldata, decoded, seen,
                 l1TimelockABI, upgradeExecutorABI, arbSysABI>>

(* One callback of decoded[0].map (the single element of the schedule      *)
(* case): handleScheduleCall on pair i; a throw abandons the array.        *)
MapStep ==
  /\ pc = "map"
  /\ UNCHANGED elsewhere
  /\ i <= Len(decoded)
  /\ LET pair == decoded[i]
         r == IF pair.target.ok /\ pair.payload.ok
              THEN handleScheduleCall(pair.target.v, pair.payload.v)
              ELSE Thrown(CodecFault)
     IN IF r.ok
        THEN /\ mapped' = Append(mapped, r.action)
             /\ i' = i + 1
             /\ UNCHANGED <<pc, outcome>>
        ELSE /\ outcome' = Raised(r.fault)
             /\ pc' = "done"
             /\ UNCHANGED <<mapped, i>>
  /\ UNCHANGED <<entry, src, input, calldata, decoded, seen, statics>>

(* The array of Actions is returned to the caller. *)
Return ==
  /\ pc = "map"
  /\ UNCHANGED elsewhere
  /\ i > Len(decoded)
  /\ outcome' = Returned(mapped)
  /\ pc' = "done"
  /\ UNCHANGED <<entry, src, input, calldata, decoded, i, mapped, seen, statics>>

(* The locals of a call that is over are gone. *)
Forget ==
  /\ pc' = "idle"
  /\ entry' = "none"
  /\ src' = NoSrc
  /\ input' = <<>>
  /\ calldata' = <<>>
  /\ decoded' = <<>>
  /\ i' = 0
  /\ mapped' = <<>>
  /\ outcome' = NoOutcome

(* The call is over; nothing of it is kept. *)
Reset ==
  /\ pc = "done"
  /\ UNCHANGED elsewhere
  /\ Forget
  /\ UNCHANGED <<seen, statics>>

(* The call is over and its caller keeps what it called and what it got. *)
Complete ==
  /\ pc = "done"
  /\ UNCHANGED elsewhere
  /\ seen' = [entry |-> entry, src |-> src, input |-> input, outcome |-> outcome]
  /\ Forget
  /\ UNCHANGED statics

Next == Call \/ OuterDispatch \/ TimelockLayer \/ MapStep \/ Return \/ Reset

Spec == Init /\ [][Next]_vars

(* Calls one after another, the caller comparing a result with one it got  *)
(* earlier.                                                                *)
NextRepeat ==
  CallProbe \/ OuterDispatch \/ TimelockLayer \/ MapStep \/ Return \/ Reset \/ Complete

SpecRepeat == Init /\ [][NextRepeat]_vars

(***************************************************************************)
(* What a call description says, independently of its encoding.            *)
(***************************************************************************)
KnownInbox(a) == \E k \in 1..Len(chains) : a = Inbox(k)

IsDirect(p) == ~p.env /\ p.target = l1UpgradeExecutor

IsEnvelope(p) == p.env /\ p.target = retryableMagic

(* The pair is a complete executor call on one of the two routes. *)
WellFormed(p) ==
  /\ p.cut = 0
  /\ p.call.fn \in {"execute", "executeCall"}
  /\ IsDirect(p) \/ (IsEnvelope(p) /\ KnownInbox(p.inbox))

DescribedChain(p) ==
  IF p.env THEN chains[CHOOSE k \in 1..Len(chains) : p.inbox = Inbox(k)].chainID
  ELSE 1

DerivedFrom(a, p) ==
  /\ a.type = (IF p.call.fn = "execute" THEN "DELEGATECALL" ELSE "CALL")
  /\ a.address = p.call.addr
  /\ a.callData = p.call.data
  /\ a.chainID = DescribedChain(p)

Scheduled == src.fn \in {"schedule", "scheduleBatch"}

NPairs == Len(src.pairs)

Finished == pc = "done" /\ Scheduled

(* C1: a schedule call whose pair decodes yields exactly one Action, a     *)
(* scheduleBatch call with N decodable pairs yields exactly N Actions, the *)
(* i-th being the one of (targets[i], payloads[i]).                        *)
C1_OneActionPerPair ==
  (Finished /\ src.extra >= 0 /\ \A k \in 1..NPairs : WellFormed(src.pairs[k]))
    => /\ outcome.st = "returned"
       /\ Len(outcome.actions) = NPairs
       /\ \A k \in 1..NPairs : DerivedFrom(outcome.actions[k], src.pairs[k])

C1_Witness ==
  /\ Finished /\ src.fn = "scheduleBatch" /\ NPairs = 3
  /\ \A k \in 1..NPairs : WellFormed(src.pairs[k])
  /\ src.pairs[1] # src.pairs[2] /\ src.pairs[2] # src.pairs[3]
  /\ src.pairs[1] # src.pairs[3]
  /\ outcome.st = "returned" /\ Len(outcome.actions) = 3

(* C2: a scheduleBatch call in which any pair faults ends in a fault and   *)
(* the caller receives no Action, not even those of the pairs before it.   *)
C2_NoPartialBatch ==
  (Finished /\ src.fn = "scheduleBatch"
     /\ \E k \in 1..NPairs : ~WellFormed(src.pairs[k]))
    => outcome.st = "thrown" /\ outcome.actions = <<>>

C2_Witness ==
  /\ Finished /\ src.fn = "scheduleBatch" /\ NPairs = 3
  /\ WellFormed(src.pairs[1]) /\ ~WellFormed(src.pairs[2]) /\ WellFormed(src.pairs[3])
  /\ Len(mapped) = 1
  /\ outcome.st = "thrown" /\ outcome.actions = <<>>

(* C3: an execute payload sent to the configured upgrade executor gives a  *)
(* DELEGATECALL Action whose address is the decoded action contract and    *)
(* whose callData is the decoded second argument, never the target.        *)
C3_ExecuteIsDelegateCall ==
  Finished =>
    \A k \in 1..NPairs :
      LET p == src.pairs[k]
      IN (IsDirect(p) /\ p.call.fn = "execute") =>
           /\ (src.fn = "schedule" /\ p.cut = 0) => outcome.st = "returned"
           /\ outcome.st = "returned" =>
                /\ outcome.actions[k].type = "DELEGATECALL"
                /\ outcome.actions[k].address = p.call.addr
                /\ outcome.actions[k].callData = p.call.data
                /\ outcome.actions[k].address # p.target

C3_Witness ==
  /\ Finished /\ src.fn = "schedule"
  /\ IsDirect(src.pairs[1]) /\ src.pairs[1].call = ExecCall("execute", addrA, otherCallData)
  /\ outcome.st = "returned"
  /\ outcome.actions[1].type = "DELEGATECALL" /\ outcome.actions[1].address = addrA

(* C4: an executeCall payload gives a CALL Action with the decoded target  *)
(* and call data and an empty decodedCallData; sent through schedule to    *)
(* the upgrade executor it decodes to exactly that one Action on chain 1.  *)
C4_ExecuteCallIsCall ==
  Finished =>
    \A k \in 1..NPairs :
      LET p == src.pairs[k]
      IN p.call.fn = "executeCall" =>
           /\ (src.fn = "schedule" /\ IsDirect(p) /\ p.cut = 0) =>
                outcome = Returned(<< [type |-> "CALL", address |-> p.call.addr,
                                       chainID |-> 1, callData |-> p.call.data,
                                       decodedCallData |-> ""] >>)
           /\ outcome.st = "returned" =>
                /\ outcome.actions[k].type = "CALL"
                /\ outcome.actions[k].address = p.call.addr
                /\ outcome.actions[k].callData = p.call.data
                /\ outcome.actions[k].decodedCallData = ""

C4_Witness ==
  /\ Finished /\ src.fn = "schedule"
  /\ IsDirect(src.pairs[1])
  /\ src.pairs[1].call = ExecCall("executeCall", addrA, performCallData)
  /\ outcome.st = "returned" /\ Len(outcome.actions) = 1
  /\ outcome.actions[1].type = "CALL" /\ outcome.actions[1].decodedCallData = ""

(* C5 as stated: inside execute, every action payload that starts with     *)
(* the selector 0xb147f40c is labelled "perform()", whatever follows it.   *)
C5_SelectorLabelled ==
  (Finished /\ outcome.st = "returned") =>
    \A k \in 1..NPairs :
      src.pairs[k].call.fn = "execute" =>
        outcome.actions[k].decodedCallData =
          (IF Selector(src.pairs[k].call.data) = performCallData THEN "perform()" ELSE "")

(* C5 amended: inside execute, decodedCallData is "perform()" exactly when *)
(* the action payload is the four bytes 0xb147f40c and nothing else; every *)
(* other payload, also one that only starts with them, leaves it empty.    *)
C5_PerformExact ==
  (Finished /\ outcome.st = "returned") =>
    \A k \in 1..NPairs :
      src.pairs[k].call.fn = "execute" =>
        outcome.actions[k].decodedCallData =
          (IF src.pairs[k].call.data = performCallData THEN "perform()" ELSE "")

C5_Witness ==
  /\ Finished /\ src.fn = "schedule" /\ outcome.st = "returned"
  /\ src.pairs[1].call.fn = "execute"
  /\ Len(src.pairs[1].call.data) > 4
  /\ Selector(src.pairs[1].call.data) = performCallData
  /\ outcome.actions[1].decodedCallData = ""

(* C6: a pair whose target is the configured L1 upgrade executor is        *)
(* decoded at the executor layer and its Action carries chain ID 1,        *)
(* whatever the payload holds.                                             *)
C6_DirectExecutorHomeChain ==
  Finished =>
    \A k \in 1..NPairs :
      LET p == src.pairs[k]
      IN p.target = l1UpgradeExecutor =>
           /\ outcome.st = "returned" => outcome.actions[k].chainID = 1
           /\ (src.fn = "schedule" /\ outcome.st = "thrown") =>
                outcome.fault \in {Fault("Could not get UpgradeExecutor method", <<>>),
                                   CodecFault}
           /\ (src.fn = "schedule" /\ p.env) =>
                outcome = Raised(Fault("Could not get UpgradeExecutor method", <<>>))

C6_Witness ==
  /\ Finished /\ src.fn = "schedule"
  /\ src.pairs[1].target = l1UpgradeExecutor /\ ~src.pairs[1].env
  /\ src.pairs[1].call.addr = ChainExecutor(1)
  /\ outcome.st = "returned" /\ outcome.actions[1].chainID = 1

(* C7: through the retryable router, an envelope whose inbox is the inbox  *)
(* of a configured chain gives an Action with that chain's ID, not the     *)
(* home chain's and not another chain's.                                   *)
C7_EnvelopeChain ==
  Finished =>
    \A k \in 1..NPairs :
      LET p == src.pairs[k]
      IN (IsEnvelope(p) /\ KnownInbox(p.inbox)) =>
           /\ (src.fn = "schedule" /\ WellFormed(p)) => outcome.st = "returned"
           /\ outcome.st = "returned" =>
                \A j \in 1..Len(chains) :
                  p.inbox = Inbox(j) =>
                    /\ outcome.actions[k].chainID = chains[j].chainID
                    /\ outcome.actions[k].chainID # 1
                    /\ \A j2 \in 1..Len(chains) :
                         j2 # j => outcome.actions[k].chainID # chains[j2].chainID

C7_Witness ==
  /\ Finished /\ src.fn = "schedule"
  /\ IsEnvelope(src.pairs[1]) /\ src.pairs[1].inbox = Inbox(2)
  /\ outcome.st = "returned" /\ outcome.actions[1].chainID = chains[2].chainID

(* C8: through the retryable router, an envelope whose inbox matches no    *)
(* configured chain fails with the unrecognized-inbox fault before the     *)
(* executor layer is entered, and no Action is produced.                   *)
C8_UnknownInbox ==
  (Finished /\ src.extra >= 0) =>
    \A k \in 1..NPairs :
      LET p == src.pairs[k]
      IN (/\ IsEnvelope(p) /\ ~KnownInbox(p.inbox) /\ p.cut = 0
          /\ \A j \in 1..(k - 1) : WellFormed(src.pairs[j])) =>
           outcome = Raised(Fault("Unrecognized inbox ", p.inbox))

C8_Witness ==
  /\ Finished /\ src.fn = "schedule"
  /\ IsEnvelope(src.pairs[1]) /\ ~KnownInbox(src.pairs[1].inbox)
  /\ src.pairs[1].call.fn = "other"
  /\ outcome.st = "thrown" /\ outcome.fault.message = "Unrecognized inbox "
  /\ outcome.actions = <<>>

(* C9: a target that is neither the upgrade executor nor the retryable     *)
(* router always gives a fault and no Action; if it is no known inbox      *)
(* either, the fault is the unrecognized-target one and names the address. *)
C9_AllowList ==
  Finished =>
    \A k \in 1..NPairs :
      LET p == src.pairs[k]
      IN p.target \notin {l1UpgradeExecutor, retryableMagic} =>
           /\ outcome.st = "thrown" /\ outcome.actions = <<>>
           /\ (src.fn = "schedule" /\ ~KnownInbox(p.target)) =>
                outcome.fault = Fault("Unrecognized L1timelock target ", p.target)

C9_Witness ==
  /\ Finished /\ src.fn = "schedule"
  /\ src.pairs[1].target = ChainExecutor(2)
  /\ src.pairs[1].call.fn = "execute" /\ src.pairs[1].cut = 0
  /\ outcome = Raised(Fault("Unrecognized L1timelock target ", ChainExecutor(2)))

(* C10: a target that is itself the inbox of a configured chain fails with *)
(* the direct-inbox fault, not the unrecognized-target one, whatever its   *)
(* payload is.                                                             *)
C10_DirectInboxUnsupported ==
  (Finished /\ src.fn = "schedule") =>
    (KnownInbox(src.pairs[1].target) =>
       /\ outcome =
            Raised(Fault("L1Timelock calls directly to inbox not currently supported", <<>>))
       /\ outcome.fault.message # "Unrecognized L1timelock target ")

C10_Witness ==
  /\ Finished /\ src.fn = "schedule"
  /\ src.pairs[1].target = Inbox(2) /\ src.pairs[1].env
  /\ outcome.st = "thrown"
  /\ outcome.fault.message = "L1Timelock calls directly to inbox not currently supported"

(***************************************************************************)
(* Selector faults of the two inner layers.                                *)
(***************************************************************************)
TimelockSelectors == {TimelockFragments[k].selector : k \in 1..Len(TimelockFragments)}

IsWrapper(b) == Selector(b) = ArbSysFragments[11].selector

(* The raw calldata of src is what decodeL1TimelockSchedule receives. *)
RawAtTimelock ==
  /\ pc = "done" /\ src.fn = "raw"
  /\ entry = "decodeL1TimelockSchedule" \/ src.wrapped \/ ~IsWrapper(src.raw)

(* C11: calldata that reaches the timelock layer with a selector other     *)
(* than schedule or scheduleBatch (a selector of another interface, an     *)
(* unknown one, or fewer than four bytes) ends in the timelock-method      *)
(* fault and in no Action.                                                 *)
C11_UnrecognizedTimelockMethod ==
  (RawAtTimelock /\ Selector(src.raw) \notin TimelockSelectors) =>
    outcome = Raised(Fault("Could not find L1Timelock method", <<>>))

C11_Witness ==
  /\ RawAtTimelock /\ src.raw = <<1, 213>>
  /\ outcome = Raised(Fault("Could not find L1Timelock method", <<>>))

ExecutorSelectors == {ExecutorFragments[k].selector : k \in 1..Len(ExecutorFragments)}

(* Pair k is on one of the two routes and is the first pair that is no     *)
(* complete executor call.                                                 *)
ReachesExecutor(k) ==
  /\ Finished /\ src.extra >= 0 /\ k \in 1..NPairs
  /\ \A j \in 1..(k - 1) : WellFormed(src.pairs[j])
  /\ src.pairs[k].cut = 0
  /\ IsDirect(src.pairs[k]) \/ (IsEnvelope(src.pairs[k]) /\ KnownInbox(src.pairs[k].inbox))

(* C12: an executor payload whose selector is neither execute nor          *)
(* executeCall ends in the executor-method fault and in no Action, on the  *)
(* direct route and on the envelope route alike.                           *)
C12_UnrecognizedExecutorMethod ==
  \A k \in 1..NPairs :
    (ReachesExecutor(k)
       /\ Selector(ExecPayload(src.pairs[k].call)) \notin ExecutorSelectors) =>
      outcome = Raised(Fault("Could not get UpgradeExecutor method", <<>>))

C12_Witness ==
  /\ ReachesExecutor(1) /\ src.fn = "schedule"
  /\ IsEnvelope(src.pairs[1]) /\ src.pairs[1].call.fn = "other"
  /\ outcome = Raised(Fault("Could not get UpgradeExecutor method", <<>>))

(***************************************************************************)
(* Outer dispatch: decode against decodeL1TimelockSchedule.                *)
(***************************************************************************)
(* The data argument of the sendTxToL1 call that s describes. *)
WrappedData(s) ==
  IF s.wrapped THEN TimelockCalldata(s) ELSE ScheduleOf(GoodPair)

DescribesWrapper(s) == s.wrapped \/ (s.fn = "raw" /\ s.raw = WrapperRaw)

SeenTimelockCall(data) ==
  seen.entry = "decodeL1TimelockSchedule" /\ seen.input = data

(* C13: decode of a sendTxToL1 call ends as decodeL1TimelockSchedule of    *)
(* its data argument does, whatever the destination word is; a wrapper     *)
(* inside a wrapper is unwrapped once and fails at the timelock layer;     *)
(* decode of any other input ends as decodeL1TimelockSchedule of that      *)
(* input does.                                                             *)
C13_OuterDispatch ==
  (pc = "done" /\ entry = "decode") =>
    /\ (DescribesWrapper(src) /\ SeenTimelockCall(WrappedData(src))) =>
         outcome = seen.outcome
    /\ (~DescribesWrapper(src) /\ SeenTimelockCall(input)) => outcome = seen.outcome
    /\ (src.wrapped /\ DescribesWrapper([src EXCEPT !.wrapped = FALSE])) =>
         outcome = Raised(Fault("Could not find L1Timelock method", <<>>))

C13_Witness ==
  /\ pc = "done" /\ entry = "decode"
  /\ src.wrapped /\ src.dest = AddrWord(addrA) /\ src.fn = "scheduleBatch"
  /\ SeenTimelockCall(WrappedData(src))
  /\ outcome = seen.outcome /\ Len(outcome.actions) = 2

(***************************************************************************)
(* Fault messages.                                                         *)
(***************************************************************************)
(* The value a fault of the single pair p is about: the selector for the   *)
(* method faults, the address for the target and inbox faults.             *)
OffendingValue(message, p) ==
  CASE message = "Could not find L1Timelock method" -> Selector(calldata)
    [] message = "Could not get UpgradeExecutor method" -> Selector(ExecPayload(p.call))
    [] message = "Unrecognized inbox " -> p.inbox
    [] message = "L1Timelock calls directly to inbox not currently supported" -> p.target
    [] message = "Unrecognized L1timelock target " -> p.target
    [] OTHER -> <<>>

(* C14: the message of every selector, method, target and inbox fault      *)
(* carries the offending value: the selector that matched no method, the   *)
(* address that is no known target or inbox.                               *)
C14_MessageNamesValue ==
  (pc = "done" /\ outcome.st = "thrown" /\ outcome.fault # CodecFault
     /\ src.fn \in {"schedule", "raw"}) =>
    outcome.fault.value =
      OffendingValue(outcome.fault.message,
                     IF src.fn = "schedule" THEN src.pairs[1] ELSE GoodPair)

(***************************************************************************)
(* The numeric fields of the retryable envelope.                           *)
(***************************************************************************)
(* s and t describe schedule calls with envelopes that differ in the three *)
(* uint fields and in nothing else.                                        *)
GasOnly(s, t) ==
  /\ s.fn = "schedule" /\ t.fn = "schedule"
  /\ s.pairs[1].env /\ t.pairs[1].env
  /\ s.pairs[1].gas # t.pairs[1].gas
  /\ [s EXCEPT !.pairs[1].gas = t.pairs[1].gas] = t

(* C15: two envelopes that differ only in their three uint fields decode   *)
(* to the same outcome: the same Action or the same fault.                 *)
C15_GasIgnored ==
  (pc = "done" /\ seen.entry = entry /\ GasOnly(src, seen.src)) =>
    outcome = seen.outcome

C15_Witness ==
  /\ pc = "done" /\ seen.entry = entry /\ GasOnly(src, seen.src)
  /\ src.pairs[1].gas = <<-1, 0, -1>> /\ seen.src.pairs[1].gas = <<0, 0, 0>>
  /\ seen.input # input
  /\ outcome = seen.outcome /\ Len(outcome.actions) = 1

(***************************************************************************)
(* Calls one after another.                                                *)
(***************************************************************************)
(* The call that ended gave what the same call gave earlier. *)
SameAsSeen ==
  (pc = "done" /\ seen.entry = entry /\ seen.input = input) => outcome = seen.outcome

(* C16: a call ends as the same call ended earlier, whatever calls were    *)
(* made before and in between, and no step of a call changes the routing   *)
(* configuration or the ABI arrays.                                        *)
C16_Stateless == [] SameAsSeen /\ [][statics' = statics]_vars

C16_Witness ==
  /\ pc = "done" /\ entry = "decode" /\ seen.entry = entry /\ seen.input = input
  /\ src.fn = "scheduleBatch" /\ src.wrapped
  /\ outcome = seen.outcome /\ Len(outcome.actions) = 2
  /\ config.chains = chains /\ l1TimelockABI = TimelockFragments

(***************************************************************************)
(* The codec on its own: a caller encodes values of a layout and decodes   *)
(* the bytes with the same layout.                                         *)
(***************************************************************************)
Ones(n) == [k \in 1..n |-> 255]

Addresses == {addrA, Zeros(20), l1UpgradeExecutor}

Uints == {0, 1, 255, 256, 65535, 86400, 16777215, -1}

ByteStrings == {<<>>, <<7>>, performCallData, Ones(31), Ones(32), Ones(33)}

Words == {Zeros(32), [k \in 1..32 |-> k], Ones(32)}

ValuesOf(type) ==
  CASE type = "address" -> Addresses
    [] type = "uint256" -> Uints
    [] type = "bytes" -> ByteStrings
    [] type = "bytes32" -> Words

ArraysOf(type) ==
  LET some == CASE type = "address[]" -> {addrA, l1UpgradeExecutor}
                [] type = "uint256[]" -> {0, 86400, -1}
                [] type = "bytes[]" -> {<<>>, performCallData, Ones(33)}
  IN UNION {[1..n -> some] : n \in 0..MaxArray}

(* The layouts the decoder uses, filled with a few values each. *)
Tuples ==
  {[types |-> EnvelopeTypes, vals |-> <<a, b, n, 0, m, d>>] :
     a \in {addrA}, b \in {Zeros(20), l1UpgradeExecutor}, n \in {1, -1}, m \in {0, 86400},
     d \in {<<>>, Ones(33)}}
  \cup {[types |-> ExecutorFragments[k].inputs, vals |-> <<a, d>>] :
          k \in {1, 2}, a \in {addrA}, d \in {performCallData, Ones(32)}}
  \cup {[types |-> TimelockFragments[2].inputs, vals |-> <<a, n, d, w, Zeros(32), 86400>>] :
          a \in {addrA}, n \in {0, 256}, d \in {<<7>>, Ones(31)}, w \in {Ones(32)}}
  \cup {[types |-> TimelockFragments[1].inputs,
          vals |-> <<as, ns, ds, Ones(32), Zeros(32), 86400>>] :
          as \in {<<>>, <<addrA, l1UpgradeExecutor>>}, ns \in {<<>>, <<0, -1>>},
          ds \in {<<>>, <<performCallData>>, <<Ones(33), <<>> >>}}
  \cup {[types |-> ArbSysFragments[11].inputs, vals |-> <<a, d>>] :
          a \in {l1UpgradeExecutor}, d \in {<<>>, Ones(33)}}

CodecInputs ==
  UNION {{[types |-> <<t>>, vals |-> <<v>>] : v \in ValuesOf(t)} :
           t \in {"address", "uint256", "bytes", "bytes32"}}
  \cup UNION {{[types |-> <<t>>, vals |-> <<v>>] : v \in ArraysOf(t)} :
                t \in {"address[]", "uint256[]", "bytes[]"}}
  \cup Tuples

(* The value a decoded uint256 word stands for. *)
UintOf(w) ==
  IF w = Ones(WordSize) THEN -1 ELSE w[30] * 65536 + w[31] * 256 + w[32]

(* The items of a decoded Result as the caller reads them. *)
ItemValue(type, raw) ==
  IF IsArray(type)
  THEN [k \in 1..Len(raw) |->
          IF ElemType(type) = "uint256" THEN UintOf(raw[k].v) ELSE raw[k].v]
  ELSE IF type = "uint256" THEN UintOf(raw) ELSE raw

AllRead(type, item) ==
  item.ok /\ (IsArray(type) => \A k \in 1..Len(item.v) : item.v[k].ok)

(* abiCoder.encode(types, values) *)
Encode ==
  /\ encoded = <<>> /\ layout = <<>>
  /\ \E c \in CodecInputs :
       /\ layout' = c.types
       /\ value' = c.vals
       /\ encoded' = encode(c.types, c.vals)
  /\ result' = NoResult
  /\ UNCHANGED <<decoderVars, limiterVars, uiVars, appVars>>

(* abiCoder.decode(types, data), every item read *)
Decode ==
  /\ layout # <<>> /\ result = NoResult
  /\ LET r == abiDecode(layout, encoded)
     IN result' =
          IF r.st = "ok" /\ \A k \in 1..Len(layout) : AllRead(layout[k], r.items[k])
          THEN [st |-> "ok",
                vals |-> [k \in 1..Len(layout) |-> ItemValue(layout[k], r.items[k].v)]]
          ELSE [st |-> "thrown", vals |-> <<>>]
  /\ UNCHANGED <<layout, value, encoded, decoderVars, limiterVars, uiVars, appVars>>

Discard ==
  /\ result # NoResult
  /\ layout' = <<>>
  /\ value' = <<>>
  /\ encoded' = <<>>
  /\ result' = NoResult
  /\ UNCHANGED <<decoderVars, limiterVars, uiVars, appVars>>

NextCodec == Encode \/ Decode \/ Discard

SpecCodec == Init /\ [][NextCodec]_vars

(* C17: decoding the encoding of a tuple of values with the layout it was  *)
(* encoded with gives the values back: single uint256, address, bytes and  *)
(* bytes32 values, arrays of them, and the tuples of the timelock,         *)
(* executor, envelope and wrapper layouts.                                 *)
C17_RoundTrip ==
  result # NoResult => result = [st |-> "ok", vals |-> value]

C17_Witness ==
  /\ layout = TimelockFragments[1].inputs
  /\ value[1] = <<addrA, l1UpgradeExecutor>> /\ value[2] = <<0, -1>>
  /\ value[3] = <<Ones(33), <<>> >>
  /\ result = [st |-> "ok", vals |-> value]

(***************************************************************************)
(* RateLimiter (App.tsx): execute queues a function, processQueue starts   *)
(* the queued functions one after another, minInterval ms apart.  The      *)
(* operators take the limiter L and the clock reading t and give the       *)
(* limiter at the next await; each action is one run of JavaScript         *)
(* between two awaits.                                                     *)
(***************************************************************************)
minInterval == 350

(* How far the clock moves between two runs. *)
Steps == {175, 350}

(* Variant: the newest queued function is taken. *)
Dequeue_newest(q) == [fn |-> q[Len(q)], rest |-> SubSeq(q, 1, Len(q) - 1)]

(* this.queue.shift() *)
Dequeue(q) == [fn |-> Head(q), rest |-> Tail(q)]

(* Variant: the wait is the time already elapsed. *)
Wait_elapsed(timeSinceLastCall) == timeSinceLastCall

(* The delay of the setTimeout: minInterval - timeSinceLastCall *)
Wait(timeSinceLastCall) == minInterval - timeSinceLastCall

(* Variant: the loop ends without giving up the processing flag. *)
Drained_busy(L) ==
  [L EXCEPT !.loop = "idle", !.current = 0, !.drained = TRUE]

(* The while loop ends: this.processing = false *)
Drained(L) ==
  [L EXCEPT !.processing = FALSE, !.loop = "idle", !.current = 0, !.drained = TRUE]

(* const item = this.queue.shift(); if (item) { lastCallTime = Date.now(); *)
(* await item.fn() }: the function is called and runs to its first await.  *)
StartItem(L, t) ==
  IF L.queue = <<>> THEN Drained(L)
  ELSE LET d == Dequeue(L.queue)
       IN [L EXCEPT !.queue = d.rest,
                    !.current = d.fn,
                    !.lastCallTime = t,
                    !.fns[d.fn].st = "running",
                    !.starts = Append(@, d.fn),
                    !.startedAt = t,
                    !.gap = t - L.startedAt,
                    !.afterDrain = L.drained,
                    !.drained = FALSE,
                    !.loop = "running"]

(* processQueue from the test of its while loop to its next await. *)
LoopHead(L, t) ==
  IF L.queue = <<>> THEN Drained(L)
  ELSE LET timeSinceLastCall == t - L.lastCallTime
       IN IF timeSinceLastCall < minInterval
          THEN [L EXCEPT !.loop = "sleeping", !.timer = t + Wait(timeSinceLastCall)]
          ELSE StartItem(L, t)

(* execute(fn): the function is queued and processQueue is called, which   *)
(* returns at once when a loop is already running.                         *)
execute(L, fn, t) ==
  LET pushed == [L EXCEPT !.fns = Append(@, fn), !.queue = Append(@, Len(L.fns) + 1)]
  IN IF pushed.processing THEN pushed
     ELSE LoopHead([pushed EXCEPT !.processing = TRUE], t)

(* A function as it is handed to execute. *)
Fn(kind, owner) ==
  [kind |-> kind, owner |-> owner, st |-> "queued", reply |-> "none", promise |-> "pending"]

(* What the promise of a function of the given kind can be fulfilled with: *)
(* a lookup gets a reply with a result ("hit") or any reply without one    *)
(* ("empty": no results, an error status, not the expected shape).         *)
Replies(kind) == IF kind = "task" THEN {"done"} ELSE {"hit", "empty"}

(* A continuation waits in the microtask queue: processQueue after its     *)
(* function settled, a lookup after the promise execute gave it settled,   *)
(* or a `then` callback of a card after its promise resolved.              *)
ResumeDue ==
  /\ fourByteRateLimiter.loop = "running"
  /\ fourByteRateLimiter.fns[fourByteRateLimiter.current].st \in {"fulfilled", "rejected"}

FourByteDue(n) ==
  /\ lookups[n].stage = "4byte"
  /\ fourByteRateLimiter.fns[lookups[n].fn].promise # "pending"

SourceDue(n) ==
  /\ sources[n].stage = "wait"
  /\ fourByteRateLimiter.fns[sources[n].fn].promise # "pending"

ThenDue(th) ==
  IF th.kind = "decode" THEN lookups[th.of].stage = "resolved"
  ELSE sources[th.of].stage = "resolved"

(* The microtask queue is empty: only then does the event loop take the    *)
(* next task (a timer, a network reply, a render).                         *)
Quiet ==
  /\ ~ResumeDue
  /\ \A n \in 1..Len(lookups) : ~FourByteDue(n)
  /\ \A n \in 1..Len(sources) : ~SourceDue(n)
  /\ \A th \in thens : ~ThenDue(th)

(* Some caller hands a function to execute. *)
Execute ==
  /\ Len(fourByteRateLimiter.fns) < MaxCalls
  /\ fourByteRateLimiter' = execute(fourByteRateLimiter, Fn("task", 0), now)
  /\ UNCHANGED <<now, decoderVars, codecVars, uiVars, appVars>>

(* The setTimeout of the wait fires, no earlier than asked for. *)
TimerFires ==
  /\ Quiet
  /\ fourByteRateLimiter.loop = "sleeping"
  /\ now >= fourByteRateLimiter.timer
  /\ fourByteRateLimiter' = StartItem(fourByteRateLimiter, now)
  /\ UNCHANGED <<now, decoderVars, codecVars, uiVars, appVars>>

(* The promise of the running function settles: fulfilled with some reply  *)
(* or rejected.                                                            *)
FnSettles ==
  /\ Quiet
  /\ fourByteRateLimiter.loop = "running"
  /\ LET n == fourByteRateLimiter.current
     IN /\ fourByteRateLimiter.fns[n].st = "running"
        /\ \/ \E r \in Replies(fourByteRateLimiter.fns[n].kind) :
                fourByteRateLimiter' =
                  [fourByteRateLimiter EXCEPT !.fns[n].st = "fulfilled",
                                              !.fns[n].reply = r]
           \/ fourByteRateLimiter' = [fourByteRateLimiter EXCEPT !.fns[n].st = "rejected"]
  /\ UNCHANGED <<now, decoderVars, codecVars, uiVars, appVars>>

(* processQueue goes on after `await item.fn()`: item.resolve or           *)
(* item.reject settles the promise execute returned, then the loop test.   *)
Resume ==
  /\ ResumeDue
  /\ LET n == fourByteRateLimiter.current
     IN /\ fourByteRateLimiter' =
             LoopHead([fourByteRateLimiter EXCEPT
                         !.fns[n].promise =
                           IF fourByteRateLimiter.fns[n].st = "fulfilled"
                           THEN "resolved" ELSE "rejected"],
                      now)
  /\ UNCHANGED <<now, decoderVars, codecVars, uiVars, appVars>>

(* Time passes: for MaxTime ms, and for as long as a wait is not over. *)
Tick ==
  /\ \E step \in Steps :
       /\ \/ now + step <= PageLoad + MaxTime
          \/ (fourByteRateLimiter.loop = "sleeping" /\ now < fourByteRateLimiter.timer)
       /\ now' = now + step
  /\ UNCHANGED <<fourByteRateLimiter, decoderVars, codecVars, uiVars, appVars>>

NextLimiter == Execute \/ TimerFires \/ FnSettles \/ Resume \/ Tick

SpecLimiter == Init /\ [][NextLimiter]_vars

Started == fourByteRateLimiter.starts

(* C18: at most one function handed to execute is running at any moment,   *)
(* every function started before the latest one has settled, and the       *)
(* functions are started in the order in which execute was called.         *)
C18_SerialInOrder ==
  /\ Cardinality({n \in 1..Len(fourByteRateLimiter.fns) :
                    fourByteRateLimiter.fns[n].st = "running"}) <= 1
  /\ \A k \in 1..(Len(Started) - 1) :
       fourByteRateLimiter.fns[Started[k]].st \in {"fulfilled", "rejected"}
  /\ \A k \in 1..Len(Started) : Started[k] = k

C18_Witness ==
  /\ Len(Started) = 2
  /\ fourByteRateLimiter.fns[2].st = "running"
  /\ fourByteRateLimiter.fns[1].promise = "rejected"
  /\ fourByteRateLimiter.queue = <<3>>

(* C19: two functions started one after the other are started at least     *)
(* minInterval ms apart, also when the second is queued after the queue    *)
(* had drained.                                                            *)
C19_MinInterval ==
  Len(Started) >= 2 => fourByteRateLimiter.gap >= minInterval

C19_Witness ==
  /\ Len(Started) >= 2
  /\ fourByteRateLimiter.afterDrain
  /\ fourByteRateLimiter.gap = minInterval

(* The rate limiter when every function handed to it settles: the          *)
(* function's promise settles, the loop's continuation runs, the timer     *)
(* fires once its time has come and the clock moves on.                    *)
SpecLimiterFair ==
  /\ SpecLimiter
  /\ WF_vars(FnSettles) /\ WF_vars(Resume) /\ WF_vars(TimerFires) /\ WF_vars(Tick)

(* The promise execute returned for the n-th function is settled as the    *)
(* function's own promise was.                                             *)
OwnOutcome(n) ==
  /\ fourByteRateLimiter.fns[n].promise = "resolved"
       => fourByteRateLimiter.fns[n].st = "fulfilled"
  /\ fourByteRateLimiter.fns[n].promise = "rejected"
       => fourByteRateLimiter.fns[n].st = "rejected"

Submitted(n) == Len(fourByteRateLimiter.fns) >= n

Settled(n) == Submitted(n) /\ fourByteRateLimiter.fns[n].promise # "pending"

(* C21: the promise of every call of execute settles, whenever the call is *)
(* made and whatever the functions before it did, and it is resolved only  *)
(* when its own function was fulfilled, rejected only when its own         *)
(* function was rejected.                                                  *)
C21_EveryCallSettles ==
  /\ [] (\A n \in 1..Len(fourByteRateLimiter.fns) : OwnOutcome(n))
  /\ \A n \in 1..(MaxCalls + 1) : Submitted(n) ~> Settled(n)

C21_Witness ==
  /\ Len(Started) = 3
  /\ fourByteRateLimiter.fns[1].promise = "rejected"
  /\ fourByteRateLimiter.fns[2].promise = "resolved"
  /\ fourByteRateLimiter.afterDrain
  /\ fourByteRateLimiter.fns[3].promise = "resolved"

(***************************************************************************)
(* The signature resolver of the page (App.tsx): decodeCallData with its   *)
(* 4byte and explorer-ABI lookups, fetchContractSource, and the ActionCard *)
(* that calls both in its effect.                                          *)
(***************************************************************************)
(* Actions the decoder can return, as the cards get them. *)
UiActions ==
  {ExecuteCallAction(l1UpgradeExecutor, addrA, otherCallData, 1),
   ExecuteCallAction(ChainExecutor(1), addrA, otherCallData, chains[1].chainID),
   ExecuteAction(l1UpgradeExecutor, addrA, <<>>, 1),
   ExecuteAction(l1UpgradeExecutor, addrA, performCallData, 1)}

(* getExplorerApiUrl(chainID) is not null *)
HasExplorer(chainID) == chainID \in {1, 42161, 42170}

(* Variant: a call that ended without a signature is not served again. *)
CachedDecode_retry(ls, address, callData) ==
  LET hits == {n \in 1..Len(ls) : /\ ls[n].address = address
                                  /\ ls[n].callData = callData
                                  /\ ~(ls[n].stage = "resolved" /\ ls[n].text = "")}
  IN IF hits = {} THEN 0 ELSE CHOOSE n \in hits : TRUE

(* decodeCache.get(`${address}:${callData}`): the call kept under the key, *)
(* or 0.                                                                   *)
CachedDecode(ls, address, callData) ==
  LET hits == {n \in 1..Len(ls) : ls[n].address = address /\ ls[n].callData = callData}
  IN IF hits = {} THEN 0 ELSE CHOOSE n \in hits : TRUE

(* sourceCache.get(`${chainID}:${address}`), or 0 *)
CachedSource(ss, address, chainID) ==
  LET hits == {n \in 1..Len(ss) : ss[n].address = address /\ ss[n].chainID = chainID}
  IN IF hits = {} THEN 0 ELSE CHOOSE n \in hits : TRUE

(* decodeWithABI up to the fetch of fetchContractABI: without an explorer  *)
(* for the chain it gives '' at once.                                      *)
ToAbi(lookup) ==
  IF HasExplorer(lookup.chainID) THEN [lookup EXCEPT !.stage = "abi"]
  ELSE [lookup EXCEPT !.stage = "resolved", !.text = ""]

(* decodeCallData(callData, address, chainID): the cached promise, or a    *)
(* new decodeCallDataUncached call, which runs to its first await: the     *)
(* 4byte lookup handed to the rate limiter, or for calldata shorter than a *)
(* selector the ABI lookup.                                                *)
decodeCallData(L, ls, a, t) ==
  LET cached == CachedDecode(ls, a.address, a.callData)
      fresh == [address |-> a.address, callData |-> a.callData, chainID |-> a.chainID,
                stage |-> "4byte", text |-> "", fn |-> 0, abi |-> "none"]
  IN IF cached # 0 THEN [lim |-> L, lookups |-> ls, promise |-> cached]
     ELSE IF Len(a.callData) < 4
          THEN [lim |-> L, lookups |-> Append(ls, ToAbi(fresh)), promise |-> Len(ls) + 1]
          ELSE [lim |-> execute(L, Fn("4byte", Len(ls) + 1), t),
                lookups |-> Append(ls, [fresh EXCEPT !.fn = Len(L.fns) + 1]),
                promise |-> Len(ls) + 1]

(* fetchContractSource(address, chainID): the cached promise, or a new     *)
(* fetchContractSourceUncached call up to its first await.                 *)
fetchContractSource(L, ss, a, t) ==
  LET cached == CachedSource(ss, a.address, a.chainID)
      fresh == [address |-> a.address, chainID |-> a.chainID, stage |-> "wait",
                found |-> FALSE, fn |-> 0]
  IN IF cached # 0 THEN [lim |-> L, sources |-> ss, promise |-> cached]
     ELSE IF ~HasExplorer(a.chainID)
          THEN [lim |-> L, sources |-> Append(ss, [fresh EXCEPT !.stage = "resolved"]),
                promise |-> Len(ss) + 1]
          ELSE [lim |-> execute(L, Fn("source", Len(ss) + 1), t),
                sources |-> Append(ss, [fresh EXCEPT !.fn = Len(L.fns) + 1]),
                promise |-> Len(ss) + 1]

(* The four values the effect of the card depends on. *)
Deps(a) == <<a.callData, a.decodedCallData, a.address, a.chainID>>

(* A card is rendered with an Action (for the first time or with another   *)
(* one than before) and its effect runs.                                   *)
Show ==
  /\ Quiet
  /\ shows < MaxShows
  /\ \E c \in Cards, a \in UiActions :
       /\ Deps(a) # Deps(cards[c].action)
       /\ LET wanted == a.decodedCallData = ""
              dec == IF wanted THEN decodeCallData(fourByteRateLimiter, lookups, a, now)
                     ELSE [lim |-> fourByteRateLimiter, lookups |-> lookups, promise |-> 0]
              srcs == fetchContractSource(dec.lim, sources, a, now)
          IN /\ cards' = [cards EXCEPT ![c].action = a,
                                       ![c].isDecoding = IF wanted THEN TRUE ELSE @,
                                       ![c].decodeOf = dec.promise,
                                       ![c].sourceOf = srcs.promise]
             /\ fourByteRateLimiter' = srcs.lim
             /\ lookups' = dec.lookups
             /\ sources' = srcs.sources
             /\ thens' = thens
                  \cup (IF wanted
                        THEN {[card |-> c, kind |-> "decode", of |-> dec.promise,
                               n |-> shows]}
                        ELSE {})
                  \cup {[card |-> c, kind |-> "source", of |-> srcs.promise, n |-> shows]}
  /\ shows' = shows + 1
  /\ UNCHANGED <<now, decoderVars, codecVars, appVars>>

(* Variant: decode4Byte lets a failed lookup escape. *)
After4Byte_uncaught(lookup, fn) ==
  IF fn.promise = "resolved" /\ fn.reply = "hit"
  THEN [lookup EXCEPT !.stage = "resolved", !.text = "sig4"]
  ELSE IF fn.promise = "rejected" THEN [lookup EXCEPT !.stage = "rejected"]
       ELSE ToAbi(lookup)

(* decode4Byte after `await fourByteRateLimiter.execute(...)`: a signature *)
(* was found and is the result, or the lookup gave nothing or failed and   *)
(* decodeCallDataUncached goes on with the ABI lookup.                     *)
After4Byte(lookup, fn) ==
  IF fn.promise = "resolved" /\ fn.reply = "hit"
  THEN [lookup EXCEPT !.stage = "resolved", !.text = "sig4"]
  ELSE ToAbi(lookup)

FourByteReturns ==
  /\ \E n \in 1..Len(lookups) :
       /\ FourByteDue(n)
       /\ lookups' = [lookups EXCEPT
                        ![n] = After4Byte(@, fourByteRateLimiter.fns[lookups[n].fn])]
  /\ UNCHANGED <<cards, sources, thens, shows, limiterVars, decoderVars, codecVars, appVars>>

(* The fetch of fetchContractABI settles and decodeWithABI ends: with the  *)
(* formatted call when the explorer had an ABI with the selector, with ''  *)
(* when it had none, sent an error or could not be reached.  Call data    *)
(* without a selector matches no function of any ABI.                      *)
AbiSettles ==
  /\ Quiet
  /\ \E n \in 1..Len(lookups), r \in {"hit", "empty", "rejected"} :
       /\ lookups[n].stage = "abi"
       /\ r = "hit" => Len(lookups[n].callData) >= 4
       /\ lookups' = [lookups EXCEPT ![n].stage = "resolved",
                                     ![n].abi = r,
                                     ![n].text = IF r = "hit" THEN "sigAbi" ELSE ""]
  /\ UNCHANGED <<cards, sources, thens, shows, limiterVars, decoderVars, codecVars, appVars>>

(* fetchContractSourceUncached after its await. *)
SourceReturns ==
  /\ \E n \in 1..Len(sources) :
       /\ SourceDue(n)
       /\ sources' = [sources EXCEPT
                        ![n].stage = "resolved",
                        ![n].found =
                          /\ fourByteRateLimiter.fns[sources[n].fn].promise = "resolved"
                          /\ fourByteRateLimiter.fns[sources[n].fn].reply = "hit"]
  /\ UNCHANGED <<cards, lookups, thens, shows, limiterVars, decoderVars, codecVars, appVars>>

(* A `then` callback of a card runs once its promise is resolved. *)
ThenRuns ==
  /\ \E th \in thens :
       /\ ThenDue(th)
       /\ IF th.kind = "decode"
          THEN /\ cards' = [cards EXCEPT ![th.card].autoDecoded = lookups[th.of].text,
                                         ![th.card].autoFrom = th.of,
                                         ![th.card].isDecoding = FALSE]
          ELSE /\ cards' = [cards EXCEPT
                              ![th.card].contractSource =
                                IF sources[th.of].found THEN "found" ELSE "null"]
       /\ thens' = thens \ {th}
  /\ UNCHANGED <<lookups, sources, shows, limiterVars, decoderVars, codecVars, appVars>>

NextUi ==
  Show \/ FourByteReturns \/ AbiSettles \/ SourceReturns \/ ThenRuns
    \/ TimerFires \/ FnSettles \/ Resume \/ Tick

SpecUi == Init /\ [][NextUi]_vars

(* The page when every request settles: queued continuations run, timers   *)
(* fire once their time has come, the clock moves on, and every fetch is   *)
(* answered or fails.                                                      *)
SpecUiFair ==
  /\ SpecUi
  /\ WF_vars(Resume) /\ WF_vars(FourByteReturns) /\ WF_vars(SourceReturns)
  /\ WF_vars(ThenRuns) /\ WF_vars(TimerFires) /\ WF_vars(Tick)
  /\ WF_vars(FnSettles) /\ WF_vars(AbiSettles)

(* What the card shows below its address: the decoded call, or the raw     *)
(* call data, with or without the "Decoding..." line.                      *)
Rendered(c) ==
  LET displayDecoded == IF cards[c].action.decodedCallData # ""
                        THEN cards[c].action.decodedCallData
                        ELSE cards[c].autoDecoded
  IN IF displayDecoded # "" THEN <<"decoded", displayDecoded>>
     ELSE IF cards[c].isDecoding THEN <<"decoding", cards[c].action.callData>>
          ELSE <<"callData", cards[c].action.callData>>

(* The 4byte lookup and the ABI lookup of a decodeCallData call have both  *)
(* ended without a signature.                                              *)
LookupFailed(n) ==
  /\ lookups[n].stage \notin {"4byte", "abi"}
  /\ lookups[n].fn # 0 =>
       ~(fourByteRateLimiter.fns[lookups[n].fn].promise = "resolved"
         /\ fourByteRateLimiter.fns[lookups[n].fn].reply = "hit")
  /\ lookups[n].abi # "hit"

(* No lookup made so far has found a signature. *)
NoSignatureFound ==
  \A n \in 1..Len(lookups) :
    /\ lookups[n].abi # "hit"
    /\ lookups[n].fn # 0 => fourByteRateLimiter.fns[lookups[n].fn].reply # "hit"

C20_Degraded ==
  /\ \A n \in 1..Len(lookups) :
       /\ lookups[n].stage # "rejected"
       /\ LookupFailed(n) => lookups[n].stage = "resolved" /\ lookups[n].text = ""
  /\ NoSignatureFound =>
       \A c \in Cards :
         /\ cards[c].autoDecoded = ""
         /\ cards[c].action.decodedCallData = "" /\ ~cards[c].isDecoding
              => Rendered(c) = <<"callData", cards[c].action.callData>>

C20_ActionKept ==
  shows' = shows => \A c \in Cards : cards'[c].action = cards[c].action

(* C20: decodeCallData never rejects and gives '' when its lookups found   *)
(* nothing; while no lookup has found a signature a card that is not       *)
(* decoding shows the raw callData of its Action; no step of the resolver  *)
(* changes the Action of a card; and a card that is decoding stops         *)
(* decoding.                                                               *)
C20_GracefulFailure ==
  /\ [] C20_Degraded
  /\ [][C20_ActionKept]_vars
  /\ \A c \in Cards : cards[c].isDecoding ~> ~cards[c].isDecoding

C20_Witness ==
  \E c \in Cards, n \in 1..Len(lookups) :
    /\ cards[c].action.address = lookups[n].address
    /\ cards[c].action.callData = lookups[n].callData
    /\ cards[c].action.decodedCallData = ""
    /\ lookups[n].fn # 0
    /\ fourByteRateLimiter.fns[lookups[n].fn].promise = "rejected"
    /\ lookups[n].abi = "rejected"
    /\ thens = {}
    /\ ~cards[c].isDecoding
    /\ Rendered(c) = <<"callData", otherCallData>>

(***************************************************************************)
(* The App component (App.tsx): the debounced decode effect that resolves  *)
(* a proposal ID to calldata, calls decode and sets actions or error.      *)
(***************************************************************************)
(* String.prototype.trim, for the blank character " ". *)
trim(s) ==
  LET inked == {k \in 1..Len(s) : s[k] # " "}
  IN IF inked = {} THEN <<>>
     ELSE SubSeq(s, CHOOSE k \in inked : \A m \in inked : k <= m,
                    CHOOSE k \in inked : \A m \in inked : k >= m)

(* /^\d{70,80}$/.test(s) *)
IsProposalId(s) ==
  Len(s) \in 70..80 /\ \A k \in 1..Len(s) : s[k] \in {"0", "1", "2", "3"}

(* Array.prototype.find: the index of the first match, or 0. *)
FindStatic(id) ==
  LET hits == {k \in 1..Len(proposalsData) : proposalsData[k].proposalId = id}
  IN IF hits = {} THEN 0 ELSE CHOOSE k \in hits : \A m \in hits : k <= m

FindOption(options, id) ==
  LET hits == {k \in 1..Len(options) : options[k].id = id}
  IN IF hits = {} THEN 0 ELSE CHOOSE k \in hits : \A m \in hits : k <= m

(* What the user can have in the input box. *)
TypedInputs ==
  {<<>>, <<" ", " ">>, proposalsData[1].calldatas[1],
   <<" ">> \o newOptions[1].calldata \o <<" ">>,
   proposalsData[1].proposalId, newOptions[1].id,
   <<" ">> \o newOptions[1].id \o <<" ">>,
   Rep("3", 77), Rep("3", 69), Rep("3", 70), Rep("3", 80), Rep("3", 81),
   Rep("3", 76) \o <<"x">>}

(* Variant: the attempt keeps the actions of the attempt before. *)
Cleared_keepActions(a) == [a EXCEPT !.error = NoError]

(* setError(null); setActions(null) *)
Cleared(a) == [a EXCEPT !.error = NoError, !.actions = NoActions]

(* try { setActions(decode(dataToDecode)) } catch (err) { setError(...) }, *)
(* decode returning (ok) or throwing.                                      *)
TryDecode(a, dataToDecode, ok) ==
  IF ok THEN [a EXCEPT !.actions = [set |-> TRUE, list |-> <<[of |-> dataToDecode]>>]]
  ELSE [a EXCEPT !.error = [set |-> TRUE, kind |-> "decode", of |-> dataToDecode]]

(* The timer callback after it has cleared error and actions, with the     *)
(* inputData and proposalOptions it closed over.                           *)
Resolve(a, text, options, ok) ==
  LET trimmed == trim(text)
      staticMatch == FindStatic(trimmed)
      liveMatch == FindOption(options, trimmed)
      noted(b, handed) ==
        [b EXCEPT !.attempt = [made |-> TRUE, inputData |-> text,
                               options |-> a.proposalOptions, handed |-> handed,
                               actions |-> b.actions, error |-> b.error]]
      tried(data) == noted(TryDecode(a, data, ok), [set |-> TRUE, data |-> data])
      skipped(b) == noted(b, NotHanded)
  IN IF trimmed = <<>> THEN skipped(a)
     ELSE IF IsProposalId(trimmed)
          THEN IF staticMatch # 0 THEN tried(proposalsData[staticMatch].calldatas[1])
               ELSE IF liveMatch # 0 THEN tried(options[liveMatch].calldata)
                    ELSE skipped([a EXCEPT !.error = [set |-> TRUE, kind |-> "notFound",
                                                      of |-> trimmed]])
          ELSE tried(trimmed)

(* The user edits the input box, picks a proposal or the page is opened    *)
(* with a data parameter: setInputData; the effect's cleanup clears the    *)
(* timer and the effect sets a new one.                                    *)
SetInput ==
  /\ app.pc = "idle"
  /\ \E text \in TypedInputs :
       /\ text # app.inputData
       /\ app' = [app EXCEPT !.inputData = text,
                             !.timer = Armed(text, app.proposalOptions)]
  /\ UNCHANGED <<decoderVars, codecVars, limiterVars, uiVars>>

(* fetchNewProposals found new proposals:                                  *)
(* setProposalOptions(prev => [...newOptions, ...prev]).  The decode       *)
(* effect depends on inputData only and does not run again.                *)
ProposalsFetched ==
  /\ app.pc = "idle"
  /\ ~app.fetched
  /\ app' = [app EXCEPT !.proposalOptions = newOptions \o @, !.fetched = TRUE]
  /\ UNCHANGED <<decoderVars, codecVars, limiterVars, uiVars>>

(* The 300 ms timer fires: setError(null) *)
DebounceFires ==
  /\ app.pc = "idle"
  /\ app.timer.armed
  /\ app' = [app EXCEPT !.error = Cleared(app).error, !.timer.armed = FALSE,
                        !.pc = "clearActions"]
  /\ UNCHANGED <<decoderVars, codecVars, limiterVars, uiVars>>

(* setActions(null) *)
ClearActions ==
  /\ app.pc = "clearActions"
  /\ app' = [Cleared(app) EXCEPT !.pc = "resolve"]
  /\ UNCHANGED <<decoderVars, codecVars, limiterVars, uiVars>>

(* The rest of the callback. *)
DecodeInput ==
  /\ app.pc = "resolve"
  /\ \E ok \in BOOLEAN :
       app' = [Resolve(app, app.timer.inputData, app.timer.proposalOptions, ok)
                 EXCEPT !.pc = "idle"]
  /\ UNCHANGED <<decoderVars, codecVars, limiterVars, uiVars>>

NextApp == SetInput \/ ProposalsFetched \/ DebounceFires \/ ClearActions \/ DecodeInput

SpecApp == Init /\ [][NextApp]_vars

Handed(data) == [set |-> TRUE, data |-> data]

NotFound(id) == [set |-> TRUE, kind |-> "notFound", of |-> id]

(* C22: a decode attempt for an input that is 70 to 80 digits hands decode *)
(* the first calldata of the static proposal with that ID, else the        *)
(* calldata of the fetched proposal with that ID, else reports `Proposal   *)
(* ID not found` and does not call decode, and never hands decode the ID;  *)
(* for any other input that is not blank it hands decode the trimmed       *)
(* input.                                                                  *)
C22_ProposalIdResolved ==
  app.attempt.made =>
    LET trimmed == trim(app.attempt.inputData)
        staticMatch == FindStatic(trimmed)
        liveMatch == FindOption(app.attempt.options, trimmed)
    IN IF IsProposalId(trimmed)
       THEN /\ app.attempt.handed # Handed(trimmed)
            /\ staticMatch # 0 =>
                 app.attempt.handed = Handed(proposalsData[staticMatch].calldatas[1])
            /\ staticMatch = 0 /\ liveMatch # 0 =>
                 app.attempt.handed = Handed(app.attempt.options[liveMatch].calldata)
            /\ staticMatch = 0 /\ liveMatch = 0 =>
                 /\ app.attempt.handed = NotHanded
                 /\ app.attempt.error = NotFound(trimmed)
       ELSE trimmed # <<>> => app.attempt.handed = Handed(trimmed)

ResultFor(n, action) ==
  /\ n # 0
  /\ lookups[n].callData = action.callData
  /\ lookups[n].address = action.address
  /\ lookups[n].chainID = action.chainID

(* C24: a card that shows an auto-decoded string shows the result of the   *)
(* decodeCallData call for the callData, address and chainID of the Action *)
(* it shows.                                                               *)
C24_NoStaleResult ==
  \A c \in Cards :
    cards[c].action.decodedCallData = "" /\ Rendered(c)[1] = "decoded"
      => ResultFor(cards[c].autoFrom, cards[c].action)

(* C25: the promise decodeCallData returns for an Action is that of a      *)
(* decodeCallDataUncached call with the same callData, address and         *)
(* chainID.                                                                *)
C25_CacheRespectsChain ==
  \A c \in Cards :
    cards[c].decodeOf # 0 => ResultFor(cards[c].decodeOf, cards[c].action)

SameDecodeKey(m, n) ==
  lookups[m].address = lookups[n].address /\ lookups[m].callData = lookups[n].callData

SameSourceKey(m, n) ==
  sources[m].chainID = sources[n].chainID /\ sources[m].address = sources[n].address

(* C26: no two decodeCallDataUncached calls have the same address and      *)
(* callData, no two fetchContractSourceUncached calls the same chainID and *)
(* address, and the promise a card's effect got is that of the one call    *)
(* with the key of its Action.                                             *)
C26_SingleFlight ==
  /\ \A m, n \in 1..Len(lookups) : SameDecodeKey(m, n) => m = n
  /\ \A m, n \in 1..Len(sources) : SameSourceKey(m, n) => m = n
  /\ \A c \in Cards :
       /\ cards[c].decodeOf # 0 =>
            /\ lookups[cards[c].decodeOf].address = cards[c].action.address
            /\ lookups[cards[c].decodeOf].callData = cards[c].action.callData
       /\ cards[c].sourceOf # 0 =>
            /\ sources[cards[c].sourceOf].address = cards[c].action.address
            /\ sources[cards[c].sourceOf].chainID = cards[c].action.chainID

(* The second Action of a card has the decode key of the first, whose call *)
(* had ended with '' and had been delivered before: the card got the same  *)
(* promise again.                                                          *)
C26_Witness ==
  \E c \in Cards :
    /\ shows = 2
    /\ Len(lookups) = 1
    /\ lookups[1].stage = "resolved" /\ lookups[1].text = ""
    /\ cards[c].autoFrom = 1
    /\ cards[c].isDecoding
    /\ cards[c].decodeOf = 1
    /\ lookups[1].chainID # cards[c].action.chainID

(***************************************************************************)
(* The chain tables of the page (App.tsx) against the chain IDs the        *)
(* decoder puts into Actions.                                              *)
(***************************************************************************)
(* The chains record of getChainName; any other chainID gets the fallback  *)
(* `Chain ${chainID}`.                                                     *)
chainNames ==
  (1 :> "Ethereum") @@ (42161 :> "Arbitrum One") @@ (42170 :> "Arbitrum Nova")

(* The explorerConfigs record of getExplorerUrl: the base of each entry;   *)
(* any other chainID gets the etherscan entry.                             *)
explorerConfigs ==
  (1 :> "etherscan.io") @@ (42161 :> "arbiscan.io")
    @@ (42170 :> "arbitrum-nova.blockscout.com")

(* C27: every chainID in an Action that decode returns has an explorer API *)
(* endpoint and an entry of its own in the chain-name and explorer-page    *)
(* tables.                                                                 *)
C27_ChainsKnown ==
  outcome.st = "returned" =>
    \A k \in 1..Len(outcome.actions) :
      /\ HasExplorer(outcome.actions[k].chainID)
      /\ outcome.actions[k].chainID \in DOMAIN chainNames
      /\ outcome.actions[k].chainID \in DOMAIN explorerConfigs

(***************************************************************************)
(* The target address inside the retryable envelope.                       *)
(***************************************************************************)
(* s and t describe schedule calls with envelopes that differ in their     *)
(* target address and in nothing else.                                     *)
TargetOnly(s, t) ==
  /\ s.fn = "schedule" /\ t.fn = "schedule"
  /\ s.pairs[1].env /\ t.pairs[1].env
  /\ s.pairs[1].envTarget # t.pairs[1].envTarget
  /\ [s EXCEPT !.pairs[1].envTarget = t.pairs[1].envTarget] = t

(* The envelope of s names a configured inbox and a target that is not the *)
(* upgrade executor of that inbox's chain, and carries an execute or       *)
(* executeCall payload.                                                    *)
ForeignTarget(s) ==
  /\ s.fn = "schedule" /\ ~s.wrapped /\ s.pairs[1].env
  /\ s.pairs[1].target = retryableMagic
  /\ s.pairs[1].cut = 0
  /\ s.pairs[1].call.fn \in {"execute", "executeCall"}
  /\ \E k \in 1..Len(chains) :
       /\ s.pairs[1].inbox = chains[k].inboxAddress
       /\ s.pairs[1].envTarget # chains[k].upgradeExecutorAddress

(* C28: two envelopes that differ only in their target address decode to   *)
(* the same outcome, and an envelope whose target is not the upgrade       *)
(* executor of the matched chain is decoded to an Action all the same.     *)
C28_TargetIgnored ==
  /\ (pc = "done" /\ seen.entry = entry /\ TargetOnly(src, seen.src)) =>
       outcome = seen.outcome
  /\ (pc = "done" /\ ForeignTarget(src)) =>
       outcome.st = "returned" /\ Len(outcome.actions) = 1

C28_Witness ==
  /\ pc = "done" /\ seen.entry = entry /\ TargetOnly(src, seen.src)
  /\ src.pairs[1].envTarget = addrA /\ seen.src.pairs[1].envTarget = ChainExecutor(1)
  /\ ForeignTarget(src)
  /\ seen.input # input
  /\ outcome = seen.outcome /\ Len(outcome.actions) = 1

====
